---------------------------- MODULE Spec2Model ----------------------------
(***************************************************************************)
(* Verification model of the Iris build tool (sigmaboyihate/iris-build):   *)
(*   - the target dependency graph (core/graph.cpp),                       *)
(*   - the DSL interpreter, its values and its environment chain           *)
(*     (lang/interpreter.cpp), fed by the parser's AST construction        *)
(*     (lang/parser.cpp) and the lexer's tokens (lang/lexer.cpp).          *)
(*   - the parallel command runner (core/runner.cpp).                      *)
(*                                                                         *)
(* Target names are modelled by their rank in std::string order            *)
(* (1 < 2 < 3 ...), which is the order std::map and std::set iterate in.   *)
(***************************************************************************)
EXTENDS Integers, Sequences, FiniteSets, TLC

VARIABLES
    config,     \* BuildConfig.targets handed to Graph: Seq of [name, dependencies]
    m_nodes,    \* Graph::m_nodes : name -> GraphNode
    m_edges,    \* Graph::m_edges : name -> set of names
    last,       \* the last Graph query and the value it returned
    frames,         \* the Environment objects alive: Seq of [m_values, m_parent]
    m_current_env,  \* Interpreter::m_current_env, an index into frames
    m_config,       \* Interpreter::m_config, the BuildConfig being accumulated
    stack,          \* the eval_* calls in progress whose block is being run
    stmt,           \* the source statement evaluated last
    value,          \* the value of the expression evaluated last
    branch,         \* what the last if / unless did: "then", "else", "body", "skip"
    steps,          \* number of statements evaluated so far
    trace,          \* the source lines evaluated so far, while they follow a scenario
    m_native_functions,  \* Interpreter::m_native_functions : name -> callable
    failure,        \* the exception that left Interpreter::execute, if any
    returned,       \* <<BuildConfig>> once execute has returned it, else <<>>
    defined,        \* the names whose fn definition statement has been evaluated
    m_source,       \* Lexer::m_source, the characters of the source text
    m_pos,          \* Lexer::m_pos, one-based
    m_tokens,       \* the tokens collected by Lexer::tokenize, then Parser::m_tokens
    parsed,         \* what Parser::parse produced from m_tokens
    pipeline,       \* "source", "lexed", "parsed", "executed" or "failed"
    commands,       \* run_parallel's argument: the commands to run
    max_parallel,   \* run_parallel's argument, after the defaulting of n <= 0
    futures,        \* run_parallel's futures: Seq of [command, state, valid, complete]
    results,        \* run_parallel's results
    pc,             \* where the thread that called run_parallel stands
    m_running,      \* Runner::m_running
    m_cancelled     \* Runner::m_cancelled

graphVars == <<config, m_nodes, m_edges, last>>

interpVars == <<frames, m_current_env, m_config, stack, stmt, value, branch,
                steps, trace>>

callVars == <<m_native_functions, failure, returned, defined>>

parseVars == <<m_source, m_pos, m_tokens, parsed, pipeline>>

runnerVars ==
    <<commands, max_parallel, futures, results, pc, m_running, m_cancelled>>

vars == <<graphVars, interpVars, callVars, parseVars, runnerVars>>

(***************************************************************************)
(* Bounds of the model.                                                    *)
(***************************************************************************)
MaxName == 3

MaxTargets == 3

MaxDeps == 2

Names == 1..MaxName

(***************************************************************************)
(* Generic helpers.                                                        *)
(***************************************************************************)
Range(s) == {s[i] : i \in DOMAIN s}

SetMin(S) == CHOOSE m \in S : \A x \in S : m <= x

\* Iteration order of a std::set<std::string> / the keys of a std::map.
RECURSIVE SortedSeq(_)
SortedSeq(S) ==
    IF S = {} THEN <<>>
    ELSE LET m == SetMin(S) IN <<m>> \o SortedSeq(S \ {m})

SeqsUpTo(S, n) == UNION {[1..k -> S] : k \in 0..n}

RECURSIVE SumLens(_)
SumLens(ts) ==
    IF ts = <<>> THEN 0
    ELSE Len(Head(ts).dependencies) + SumLens(Tail(ts))

(***************************************************************************)
(* Graph construction: Graph::Graph, build_from_config, add_node, add_edge *)
(***************************************************************************)
add_node(nodes, node) ==
    [n \in DOMAIN nodes \cup {node.name} |->
        IF n = node.name THEN node ELSE nodes[n]]

add_edge(edges, from, to) ==
    [n \in DOMAIN edges \cup {from} |->
        IF n = from
        THEN (IF from \in DOMAIN edges THEN edges[from] ELSE {}) \cup {to}
        ELSE edges[n]]

RECURSIVE add_edges(_, _, _)
add_edges(edges, from, deps) ==
    IF deps = <<>> THEN edges
    ELSE add_edges(add_edge(edges, from, Head(deps)), from, Tail(deps))

\* One iteration of the loop of build_from_config over config.targets.
BuildTarget(target) ==
    /\ m_nodes' = add_node(m_nodes,
                     [name |-> target.name, dependencies |-> target.dependencies])
    /\ m_edges' = add_edges(m_edges, target.name, target.dependencies)

(***************************************************************************)
(* Graph::topological_sort                                                 *)
(***************************************************************************)
EdgeTargets(edges) == UNION {edges[f] : f \in DOMAIN edges}

\* A variant that counts, for each node, the edges that leave it.
OutDegree(nodes, edges) ==
    [n \in DOMAIN nodes \cup EdgeTargets(edges) |->
        IF n \in DOMAIN edges THEN Cardinality(edges[n]) ELSE 0]

\* in_degree after the two counting loops; operator[] creates missing keys.
InDegree(nodes, edges) ==
    [n \in DOMAIN nodes \cup EdgeTargets(edges) |->
        Cardinality({f \in DOMAIN edges : n \in edges[f]})]

\* The queue after the loop that pushes every key of in_degree with degree 0.
InitialQueue(indeg) ==
    SelectSeq(SortedSeq(DOMAIN indeg), LAMBDA n : indeg[n] = 0)

\* The inner for loop over m_edges.at(node): returns <<in_degree, queue>>.
RECURSIVE Relax(_, _, _)
Relax(neighbors, indeg, queue) ==
    IF neighbors = <<>> THEN <<indeg, queue>>
    ELSE LET nb == Head(neighbors)
             d  == indeg[nb] - 1
             indeg2 == [indeg EXCEPT ![nb] = d]
         IN Relax(Tail(neighbors), indeg2,
                  IF d = 0 THEN Append(queue, nb) ELSE queue)

\* The while (!queue.empty()) loop.
RECURSIVE KahnLoop(_, _, _, _)
KahnLoop(edges, queue, indeg, result) ==
    IF queue = <<>> THEN result
    ELSE LET node == Head(queue)
             r == IF node \in DOMAIN edges
                  THEN Relax(SortedSeq(edges[node]), indeg, Tail(queue))
                  ELSE <<indeg, Tail(queue)>>
         IN KahnLoop(edges, r[2], r[1], Append(result, node))

topological_sort(nodes, edges) ==
    LET indeg == InDegree(nodes, edges)
    IN KahnLoop(edges, InitialQueue(indeg), indeg, <<>>)

(***************************************************************************)
(* Graph::has_cycle and Graph::dfs_cycle                                   *)
(* The two std::set arguments are passed by reference: the operators       *)
(* return them together with the bool.                                     *)
(***************************************************************************)
RECURSIVE dfs_cycle(_, _, _, _)
RECURSIVE dfs_neighbors(_, _, _, _)

\* The for loop of dfs_cycle over m_edges.at(node).
dfs_neighbors(edges, neighbors, visited, rec_stack) ==
    IF neighbors = <<>>
    THEN [found |-> FALSE, visited |-> visited, rec_stack |-> rec_stack]
    ELSE LET r == dfs_cycle(edges, Head(neighbors), visited, rec_stack)
         IN IF r.found THEN r
            ELSE dfs_neighbors(edges, Tail(neighbors), r.visited, r.rec_stack)

dfs_cycle(edges, node, visited, rec_stack) ==
    IF node \in rec_stack
    THEN [found |-> TRUE, visited |-> visited, rec_stack |-> rec_stack]
    ELSE IF node \in visited
    THEN [found |-> FALSE, visited |-> visited, rec_stack |-> rec_stack]
    ELSE LET r == IF node \in DOMAIN edges
                  THEN dfs_neighbors(edges, SortedSeq(edges[node]),
                                     visited \cup {node}, rec_stack \cup {node})
                  ELSE [found |-> FALSE, visited |-> visited \cup {node},
                        rec_stack |-> rec_stack \cup {node}]
         IN IF r.found THEN r
            ELSE [found |-> FALSE, visited |-> r.visited,
                  rec_stack |-> r.rec_stack \ {node}]

\* The for loop of has_cycle over m_nodes.
RECURSIVE has_cycle_loop(_, _, _, _)
has_cycle_loop(edges, names, visited, rec_stack) ==
    IF names = <<>> THEN FALSE
    ELSE LET r == dfs_cycle(edges, Head(names), visited, rec_stack)
         IN IF r.found THEN TRUE
            ELSE has_cycle_loop(edges, Tail(names), r.visited, r.rec_stack)

\* A variant that searches from the first node of m_nodes only.
has_cycle_from_first(nodes, edges) ==
    IF DOMAIN nodes = {} THEN FALSE
    ELSE dfs_cycle(edges, SetMin(DOMAIN nodes), {}, {}).found

has_cycle(nodes, edges) ==
    has_cycle_loop(edges, SortedSeq(DOMAIN nodes), {}, {})

(***************************************************************************)
(* The graph as a state machine.                                           *)
(***************************************************************************)
NoQuery == [op |-> "none", value |-> <<>>]

EmptyMap == [n \in {} |-> {}]

\* No exception is in flight.
NoFailure == [kind |-> "none", what |-> ""]

\* The interpreter is not part of the graph's behaviour.
InterpIdle ==
    /\ frames = <<>>
    /\ m_current_env = 0
    /\ m_config = <<>>
    /\ stack = <<>>
    /\ stmt = <<>>
    /\ value = <<>>
    /\ branch = ""
    /\ steps = 0
    /\ trace = <<>>
    /\ m_native_functions = <<>>
    /\ failure = NoFailure
    /\ returned = <<>>
    /\ defined = {}

\* No source text is in the lexer or the parser.
ParseIdle ==
    /\ m_source = <<>>
    /\ m_pos = 0
    /\ m_tokens = <<>>
    /\ parsed = <<>>
    /\ pipeline = "idle"

\* No call of run_parallel is in progress.
RunnerIdle ==
    /\ commands = <<>>
    /\ max_parallel = 0
    /\ futures = <<>>
    /\ results = <<>>
    /\ pc = "idle"
    /\ m_running = FALSE
    /\ m_cancelled = FALSE

GraphInit ==
    /\ RunnerIdle
    /\ config = <<>>
    /\ m_nodes = EmptyMap
    /\ m_edges = EmptyMap
    /\ last = NoQuery
    /\ InterpIdle
    /\ ParseIdle

\* Graph::Graph(config) reaches the next target of config.targets.
AddTarget ==
    /\ last.op = "none"
    /\ Len(config) < MaxTargets
    /\ \E name \in Names, deps \in SeqsUpTo(Names, MaxDeps - SumLens(config)) :
          LET target == [name |-> name, dependencies |-> deps]
          IN /\ config' = Append(config, target)
             /\ BuildTarget(target)
    /\ UNCHANGED <<last, interpVars, callVars, parseVars, runnerVars>>

TopologicalSort ==
    /\ last' = [op |-> "topological_sort",
                value |-> topological_sort(m_nodes, m_edges)]
    /\ UNCHANGED <<config, m_nodes, m_edges, interpVars, callVars, parseVars,
                   runnerVars>>

HasCycle ==
    /\ last' = [op |-> "has_cycle", value |-> has_cycle(m_nodes, m_edges)]
    /\ UNCHANGED <<config, m_nodes, m_edges, interpVars, callVars, parseVars,
                   runnerVars>>

GraphNext == AddTarget \/ TopologicalSort \/ HasCycle

SpecGraph == GraphInit /\ [][GraphNext]_vars

(***************************************************************************)
(* Reference notions on the input, independent of the graph code.          *)
(***************************************************************************)
\* A -> B for each B in A.dependencies, over the whole BuildConfig.
ConfigEdges ==
    UNION {{<<config[i].name, d>> : d \in Range(config[i].dependencies)} :
              i \in DOMAIN config}

DeclaredNames == {config[i].name : i \in DOMAIN config}

ConfigNodes == DeclaredNames \cup {e[2] : e \in ConfigEdges}

Compose(R) ==
    {<<q[1][1], q[2][2]>> : q \in {p \in R \X R : p[1][2] = p[2][1]}}

RECURSIVE TransClosure(_)
TransClosure(R) ==
    LET R2 == R \cup Compose(R)
    IN IF R2 = R THEN R ELSE TransClosure(R2)

HasDirectedCycle == \E p \in TransClosure(ConfigEdges) : p[1] = p[2]

\* The orderings of the nodes: bijections from positions to nodes.
Orderings(S) ==
    {f \in [1..Cardinality(S) -> S] : \A x \in S : \E i \in DOMAIN f : f[i] = x}

SomeOrderingSatisfiesEdges ==
    \E f \in Orderings(ConfigNodes) :
        \A e \in ConfigEdges :
            \E i, j \in DOMAIN f : i < j /\ f[i] = e[1] /\ f[j] = e[2]

\* x occurs at an earlier position of the sequence than y.
Before(s, x, y) == \E i, j \in DOMAIN s : i < j /\ s[i] = x /\ s[j] = y

Sorted == last.op = "topological_sort"

(***************************************************************************)
(* C1: for an acyclic target graph, topological_sort returns dependencies  *)
(* before dependents: when target A lists B in its deps, B appears         *)
(* earlier in the returned list than A.                                    *)
(***************************************************************************)
C1_DependenciesFirst ==
    (Sorted /\ ~HasDirectedCycle) =>
        \A e \in ConfigEdges : Before(last.value, e[2], e[1])

(***************************************************************************)
(* C2: for an acyclic target graph and every edge A -> B (B listed in      *)
(* A.dependencies), A appears before B in the list topological_sort        *)
(* returns.                                                                *)
(***************************************************************************)
C2_EdgeSourceFirst ==
    (Sorted /\ ~HasDirectedCycle) =>
        \A e \in ConfigEdges : Before(last.value, e[1], e[2])

\* An acyclic chain A -> B -> C has been sorted.
C2_Witness ==
    /\ Sorted
    /\ ~HasDirectedCycle
    /\ \E a, b, c \in Names :
          /\ Cardinality({a, b, c}) = 3
          /\ <<a, b>> \in ConfigEdges /\ <<b, c>> \in ConfigEdges

FirstDecl(n) == SetMin({i \in DOMAIN config : config[i].name = n})

NothingDependsOn(n) == \A e \in ConfigEdges : e[2] # n

C4_TiesInDeclarationOrder ==
    Sorted =>
        \A a, b \in DeclaredNames :
            (/\ NothingDependsOn(a)
             /\ NothingDependsOn(b)
             /\ FirstDecl(a) < FirstDecl(b))
            => Before(last.value, a, b)


(***************************************************************************)
(* IrisValue: the tagged runtime value, and its conversions.               *)
(* Numbers are the integer-valued doubles.                                 *)
(***************************************************************************)
NilValue == [t |-> "nil", v |-> 0]

BoolValue(b) == [t |-> "bool", v |-> b]

NumberValue(n) == [t |-> "num", v |-> n]

StringValue(str) == [t |-> "str", v |-> str]

ArrayValue(elems) == [t |-> "arr", v |-> elems]

\* The null IrisValuePtr that Environment::get returns for an unbound name.
NullPtr == [t |-> "nullptr", v |-> 0]

Digits == <<"0", "1", "2", "3", "4", "5", "6", "7", "8", "9">>

\* std::to_string(int) of a non-negative int.
RECURSIVE DecStr(_)
DecStr(n) ==
    IF n < 10 THEN Digits[n + 1]
    ELSE DecStr(n \div 10) \o Digits[(n % 10) + 1]

IntToString(n) == IF n < 0 THEN "-" \o DecStr(0 - n) ELSE DecStr(n)

\* std::stod on the strings of the model: a decimal numeral converts to its
\* number; on any other string stod throws and as_number returns 0.0.
MaxNumeral == 9

Stod(str) ==
    IF \E n \in 0..MaxNumeral : DecStr(n) = str
    THEN CHOOSE n \in 0..MaxNumeral : DecStr(n) = str
    ELSE 0

as_bool(x) ==
    IF x.t = "bool" THEN x.v
    ELSE IF x.t = "nil" THEN FALSE
    ELSE IF x.t = "num" THEN x.v # 0
    ELSE IF x.t = "str" THEN x.v # ""
    ELSE TRUE

as_number(x) ==
    IF x.t = "num" THEN x.v
    ELSE IF x.t = "bool" THEN (IF x.v THEN 1 ELSE 0)
    ELSE IF x.t = "str" THEN Stod(x.v)
    ELSE 0

to_string(x) ==
    IF x.t = "nil" THEN "nil"
    ELSE IF x.t = "bool" THEN (IF x.v THEN "true" ELSE "false")
    ELSE IF x.t = "num" THEN IntToString(x.v)
    ELSE IF x.t = "str" THEN x.v
    ELSE IF x.t = "arr" THEN "[array]"
    ELSE "unknown"

as_string(x) == to_string(x)

is_truthy(x) == IF x.t = "nullptr" THEN FALSE ELSE as_bool(x)

value_to_string_list(x) ==
    IF x.t = "nullptr" THEN <<>>
    ELSE IF x.t = "arr" THEN [i \in DOMAIN x.v |-> to_string(x.v[i])]
    ELSE IF x.t = "str" THEN <<as_string(x)>>
    ELSE <<>>

(***************************************************************************)
(* Environment: define, get, set, exists.  An Environment is a record      *)
(* [m_values, m_parent] in the sequence fr; m_parent = 0 is the null       *)
(* parent of the global frame.                                             *)
(***************************************************************************)
NoValues == [n \in {} |-> NilValue]

NewEnvironment(parent) == [m_values |-> NoValues, m_parent |-> parent]

Bind(values, name, val) ==
    [n \in DOMAIN values \cup {name} |-> IF n = name THEN val ELSE values[n]]

EnvDefine(fr, e, name, val) ==
    [fr EXCEPT ![e].m_values = Bind(fr[e].m_values, name, val)]

RECURSIVE EnvGet(_, _, _)
EnvGet(fr, e, name) ==
    IF name \in DOMAIN fr[e].m_values THEN fr[e].m_values[name]
    ELSE IF fr[e].m_parent # 0 THEN EnvGet(fr, fr[e].m_parent, name)
    ELSE NullPtr

RECURSIVE EnvExists(_, _, _)
EnvExists(fr, e, name) ==
    IF name \in DOMAIN fr[e].m_values THEN TRUE
    ELSE IF fr[e].m_parent # 0 THEN EnvExists(fr, fr[e].m_parent, name)
    ELSE FALSE

\* A variant that never looks at the parents: set as define.
SetInInnermost(fr, e, name, val) ==
    [fr EXCEPT ![e].m_values = Bind(fr[e].m_values, name, val)]

RECURSIVE EnvSet(_, _, _, _)
EnvSet(fr, e, name, val) ==
    IF name \in DOMAIN fr[e].m_values
    THEN [fr EXCEPT ![e].m_values = Bind(fr[e].m_values, name, val)]
    ELSE IF fr[e].m_parent # 0 /\ EnvExists(fr, fr[e].m_parent, name)
    THEN EnvSet(fr, fr[e].m_parent, name, val)
    ELSE [fr EXCEPT ![e].m_values = Bind(fr[e].m_values, name, val)]

(***************************************************************************)
(* Lexer: the tokens of operators and of the keywords and, or, not.        *)
(* make_token's second parameter defaults to the empty string.             *)
(***************************************************************************)
make_token(type, val) == [type |-> type, value |-> val]

\* Lexer::next_token / scan_identifier_or_keyword on an operator lexeme.
LexOperator(lexeme) ==
    IF lexeme = "==" THEN make_token("EQEQ", "")
    ELSE IF lexeme = "!=" THEN make_token("NEQ", "")
    ELSE IF lexeme = "=" THEN make_token("EQ", "")
    ELSE IF lexeme = "+=" THEN make_token("PLUSEQ", "")
    ELSE IF lexeme = "+" THEN make_token("PLUS", "")
    ELSE IF lexeme = "-" THEN make_token("MINUS", "")
    ELSE IF lexeme = "!" THEN make_token("NOT", "")
    ELSE IF lexeme = "and" THEN make_token("AND", lexeme)
    ELSE IF lexeme = "or" THEN make_token("OR", lexeme)
    ELSE IF lexeme = "not" THEN make_token("NOT", lexeme)
    ELSE make_token("ERROR", lexeme)

(***************************************************************************)
(* Parser: from a source expression to the AST node the parser builds.     *)
(* A source expression is a record with field k: "str", "num", "true",     *)
(* "false", "sym", "id", "array", "unary" or "binary" (op is the lexeme).  *)
(***************************************************************************)
BinaryOp(op, left, right) ==
    [node |-> "BinaryOp", op |-> op, left |-> left, right |-> right]

Identifier(name) == [node |-> "Identifier", name |-> name]

parse_or(token, left, right) == BinaryOp("or", left, right)

parse_and(token, left, right) == BinaryOp("and", left, right)

parse_equality(token, left, right) == BinaryOp(token.value, left, right)

parse_term(token, left, right) ==
    BinaryOp(IF token.type = "PLUS" THEN "+" ELSE "-", left, right)

parse_unary(token, operand) ==
    [node |-> "UnaryOp",
     op |-> IF token.type = "MINUS" THEN "-" ELSE "not",
     operand |-> operand]

RECURSIVE parse_expression(_)
parse_expression(src) ==
    IF src.k = "str" THEN [node |-> "StringLiteral", value |-> src.s]
    ELSE IF src.k = "num" THEN [node |-> "NumberLiteral", value |-> src.n]
    ELSE IF src.k = "true" THEN [node |-> "BoolLiteral", value |-> TRUE]
    ELSE IF src.k = "false" THEN [node |-> "BoolLiteral", value |-> FALSE]
    ELSE IF src.k = "sym" THEN [node |-> "Symbol", name |-> src.name]
    ELSE IF src.k = "id" THEN Identifier(src.name)
    ELSE IF src.k = "array"
    THEN [node |-> "ArrayLiteral",
          elements |-> [i \in DOMAIN src.elems |-> parse_expression(src.elems[i])]]
    ELSE IF src.k = "unary"
    THEN parse_unary(LexOperator(src.op), parse_expression(src.e))
    ELSE LET token == LexOperator(src.op)
             left  == parse_expression(src.l)
             right == parse_expression(src.r)
         IN IF token.type = "OR" THEN parse_or(token, left, right)
            ELSE IF token.type = "AND" THEN parse_and(token, left, right)
            ELSE IF token.type \in {"EQEQ", "NEQ"}
            THEN parse_equality(token, left, right)
            ELSE parse_term(token, left, right)

\* IDENT '=' Expr and IDENT '+=' Expr; the latter is built as name = name + e.
parse_assignment_or_expression(name, token, rhs) ==
    IF token.type = "EQ"
    THEN [node |-> "Assignment", name |-> name, value |-> parse_expression(rhs)]
    ELSE [node |-> "Assignment", name |-> name,
          value |-> BinaryOp("+", Identifier(name), parse_expression(rhs))]

(***************************************************************************)
(* Interpreter: expression evaluation in environment e of fr.              *)
(***************************************************************************)
\* The names register_builtins puts into m_native_functions.
BuiltinNames ==
    {"glob", "file_exists", "read_file", "write_file", "dirname", "basename",
     "extension", "platform", "arch", "env", "shell", "run", "len", "join",
     "split", "contains", "print", "warning", "error", "find_package",
     "find_library"}

\* The tail of eval_binary, once both operands are evaluated.
eval_binary(op, left, right) ==
    IF op = "+" /\ (left.t = "str" \/ right.t = "str")
    THEN StringValue(as_string(left) \o as_string(right))
    ELSE IF op = "+" THEN NumberValue(as_number(left) + as_number(right))
    ELSE IF op = "-" THEN NumberValue(as_number(left) - as_number(right))
    ELSE IF op = "==" \/ op = "!="
    THEN LET eq == IF left.t = "str" /\ right.t = "str"
                   THEN as_string(left) = as_string(right)
                   ELSE IF left.t = "num" /\ right.t = "num"
                   THEN as_number(left) = as_number(right)
                   ELSE IF left.t = "bool" /\ right.t = "bool"
                   THEN as_bool(left) = as_bool(right)
                   ELSE to_string(left) = to_string(right)
         IN BoolValue(IF op = "==" THEN eq ELSE ~eq)
    ELSE IF op = "and" THEN BoolValue(is_truthy(left) /\ is_truthy(right))
    ELSE IF op = "or" THEN BoolValue(is_truthy(left) \/ is_truthy(right))
    ELSE NilValue

eval_unary(op, operand) ==
    IF op = "-" THEN NumberValue(0 - as_number(operand))
    ELSE IF op = "not" \/ op = "!" THEN BoolValue(~is_truthy(operand))
    ELSE operand

RECURSIVE eval_expression(_, _, _)
eval_expression(fr, e, expr) ==
    IF expr.node = "StringLiteral" THEN StringValue(expr.value)
    ELSE IF expr.node = "NumberLiteral" THEN NumberValue(expr.value)
    ELSE IF expr.node = "BoolLiteral" THEN BoolValue(expr.value)
    ELSE IF expr.node = "Symbol" THEN StringValue(expr.name)
    ELSE IF expr.node = "Identifier"
    THEN LET val == EnvGet(fr, e, expr.name)
         IN IF val.t # "nullptr" THEN val
            ELSE IF expr.name \in BuiltinNames
            THEN StringValue("__func:" \o expr.name)
            ELSE NilValue
    ELSE IF expr.node = "ArrayLiteral"
    THEN ArrayValue([i \in DOMAIN expr.elements |->
                        eval_expression(fr, e, expr.elements[i])])
    ELSE IF expr.node = "BinaryOp"
    THEN eval_binary(expr.op, eval_expression(fr, e, expr.left),
                     eval_expression(fr, e, expr.right))
    ELSE IF expr.node = "UnaryOp"
    THEN eval_unary(expr.op, eval_expression(fr, e, expr.operand))
    ELSE NilValue


(***************************************************************************)
(* The source programs the interpreter is run on.  A program is explored   *)
(* line by line: each step evaluates the next statement of the source, or  *)
(* reaches the `end` that closes the innermost open block.                 *)
(***************************************************************************)
MaxSteps == 3

SrcStr(str) == [k |-> "str", s |-> str]

SrcNum(n) == [k |-> "num", n |-> n]

SrcTrue == [k |-> "true"]

SrcFalse == [k |-> "false"]

SrcSym(name) == [k |-> "sym", name |-> name]

SrcId(name) == [k |-> "id", name |-> name]

SrcArray(elems) == [k |-> "array", elems |-> elems]

SrcUnary(op, e) == [k |-> "unary", op |-> op, e |-> e]

SrcBinary(op, l, r) == [k |-> "binary", op |-> op, l |-> l, r |-> r]

VarNames == {"flags", "a"}

TargetTypes == {"executable", "library"}

TargetNames == {"app"}

\* The variables eval_target reads, and the Target field each one fills.
TargetVars == {"sources", "includes", "flags", "link_flags", "deps", "defines"}

FieldOf(var) == IF var = "deps" THEN "dependencies" ELSE var

BuildTypes == {"release", "debug"}

ArrayLiterals ==
    {SrcArray(<<SrcStr("-Wall")>>), SrcArray(<<SrcStr("-Wextra")>>),
     SrcArray(<<SrcStr("-O3")>>)}

NumberLiterals == {SrcNum(1), SrcNum(2)}

\* Assignments: flags takes the array literals, a the numbers.
AssignPool ==
    {<<"flags", rhs>> : rhs \in ArrayLiterals} \cup {<<"a", rhs>> : rhs \in NumberLiterals}

\* The values 0, "" and [], the two booleans and an unbound identifier.
CondValues == {SrcNum(0), SrcStr(""), SrcArray(<<>>)}

CondAtoms == CondValues \cup {SrcTrue, SrcFalse, SrcId("a")}

\* Conditions of if and unless.
CondPool ==
    CondAtoms
    \cup {SrcUnary(op, x) : op \in {"not", "!"}, x \in CondValues}
    \cup {SrcBinary("and", x, SrcTrue) : x \in CondValues}
    \cup {SrcBinary("or", x, SrcFalse) : x \in CondValues}
    \cup {SrcBinary(op, SrcId("buildtype"), SrcStr(bt)) :
             op \in {"==", "!="}, bt \in BuildTypes}

\* Operands of the comparisons: strings, a symbol, a number, a boolean.
EqOperands == {SrcStr("cpp"), SrcSym("cpp"), SrcStr("1"), SrcNum(1), SrcTrue}

\* Expression statements.
ExprStmtPool ==
    {SrcId(n) : n \in VarNames}
    \cup {SrcBinary(op, l, r) : op \in {"==", "!="}, l \in EqOperands, r \in EqOperands}

AssignLine(name, op, rhs) ==
    [kind |-> "assign", name |-> name, op |-> op, rhs |-> rhs]

IfLine(cond, has_else) == [kind |-> "if", cond |-> cond, has_else |-> has_else]

UnlessLine(cond) == [kind |-> "unless", cond |-> cond]

TargetLine(type, name) ==
    [kind |-> "target", target_type |-> type, name |-> name]

CompilerLine == [kind |-> "compiler"]

ExprLine(expr) == [kind |-> "expr", expr |-> expr]

\* The `end` of a block; for a target block, the names its body assigned.
EndLine(of, assigned) == [kind |-> "end", of |-> of, assigned |-> assigned]

(***************************************************************************)
(* Scenario programs, as the sequences of lines a run of them evaluates.   *)
(***************************************************************************)
FlagsAppendScenario ==
    <<AssignLine("flags", "=", SrcArray(<<SrcStr("-Wall")>>)),
      IfLine(SrcTrue, FALSE),
      AssignLine("flags", "+=", SrcArray(<<SrcStr("-Wextra")>>)),
      EndLine("then", {})>>

ReleaseCondition == SrcBinary("==", SrcId("buildtype"), SrcStr("release"))

\* compiler do if buildtype == "release" do flags = ["-O3"] end end,
\* with the body of the if evaluated ...
ReleaseFlagsTaken ==
    <<CompilerLine,
      IfLine(ReleaseCondition, FALSE),
      AssignLine("flags", "=", SrcArray(<<SrcStr("-O3")>>)),
      EndLine("then", {}),
      EndLine("compiler", {})>>

\* ... and with the body of the if passed over.
ReleaseFlagsSkipped ==
    <<CompilerLine,
      IfLine(ReleaseCondition, FALSE),
      EndLine("compiler", {})>>

RebindScenario ==
    <<AssignLine("a", "=", SrcNum(1)),
      IfLine(SrcTrue, FALSE),
      AssignLine("a", "=", SrcNum(2)),
      EndLine("then", {})>>

\* if true do a = 1 end, at the top level of a file that never bound a.
FirstBindInIf ==
    <<IfLine(SrcTrue, FALSE),
      AssignLine("a", "=", SrcNum(1)),
      EndLine("then", {})>>

\* unless false do a = 1 end, likewise.
FirstBindInUnless ==
    <<UnlessLine(SrcFalse),
      AssignLine("a", "=", SrcNum(1)),
      EndLine("unless", {})>>

Scenarios ==
    {FlagsAppendScenario, ReleaseFlagsTaken, ReleaseFlagsSkipped, RebindScenario,
     FirstBindInIf, FirstBindInUnless}

Prefixes(s) == {SubSeq(s, 1, n) : n \in 0..Len(s)}

ScenarioPrefixes == UNION {Prefixes(s) : s \in Scenarios}

TraceOff == [on |-> FALSE, lines |-> <<>>]

\* trace after one more line: kept while the run follows a scenario.
Traced(line) ==
    IF trace.on /\ Append(trace.lines, line) \in ScenarioPrefixes
    THEN [on |-> TRUE, lines |-> Append(trace.lines, line)]
    ELSE TraceOff

(***************************************************************************)
(* Interpreter: statements.                                                *)
(***************************************************************************)
m_global_env == 1

EmptyConfig ==
    [targets |-> <<>>, global_flags |-> <<>>, compiler |-> "", dependencies |-> <<>>]

\* The host's platform() and arch().
HostPlatform == StringValue("linux")

HostArch == StringValue("x86_64")

\* Interpreter(), set_variable for the caller's variables, and the head of
\* execute: m_config reset, platform and arch defined.
GlobalFrame(seeds) ==
    LET seeded == [n \in DOMAIN seeds |-> StringValue(seeds[n])]
        env0 == [m_values |-> seeded, m_parent |-> 0]
        fr1 == EnvDefine(<<env0>>, 1, "platform", HostPlatform)
    IN EnvDefine(fr1, 1, "arch", HostArch)

\* The command line always hands over a buildtype.
SeedSets == {[n \in {"buildtype"} |-> bt] : bt \in BuildTypes}

GraphIdle ==
    /\ config = <<>>
    /\ m_nodes = EmptyMap
    /\ m_edges = EmptyMap
    /\ last = NoQuery

\* m_native_functions after register_builtins.
Builtins == [n \in BuiltinNames |-> [kind |-> "native"]]

\* Statements are evaluated while no exception has left execute and execute
\* has not returned.
Running == failure.kind = "none" /\ returned = <<>>

InterpInit ==
    /\ \E seeds \in SeedSets : frames = GlobalFrame(seeds)
    /\ m_current_env = m_global_env
    /\ m_config = EmptyConfig
    /\ stack = <<>>
    /\ stmt = [kind |-> "none"]
    /\ value = NilValue
    /\ branch = ""
    /\ steps = 0
    /\ trace = [on |-> TRUE, lines |-> <<>>]
    /\ m_native_functions = Builtins
    /\ failure = NoFailure
    /\ returned = <<>>
    /\ defined = {}
    /\ GraphIdle
    /\ ParseIdle
    /\ RunnerIdle

OpenBlock(kind, prev_env, type, name) ==
    [kind |-> kind, prev_env |-> prev_env, target_type |-> type, name |-> name,
     assigned |-> {}]

Top == stack[Len(stack)]

Pop(s) == SubSeq(s, 1, Len(s) - 1)

\* The innermost open target block, 0 when there is none.
InnermostTarget ==
    LET idx == {i \in DOMAIN stack : stack[i].kind = "target"}
    IN IF idx = {} THEN 0 ELSE CHOOSE i \in idx : \A j \in idx : j <= i

\* The innermost open compiler block, 0 when there is none.
InnermostCompiler ==
    LET idx == {i \in DOMAIN stack : stack[i].kind = "compiler"}
    IN IF idx = {} THEN 0 ELSE CHOOSE i \in idx : \A j \in idx : j <= i

\* Bookkeeping for the claims: name was assigned inside the body of the
\* innermost target block and of the innermost compiler block.
NoteAssigned(name) ==
    [i \in DOMAIN stack |->
        IF i = InnermostTarget \/ i = InnermostCompiler
        THEN [stack[i] EXCEPT !.assigned = @ \cup {name}]
        ELSE stack[i]]

\* eval_statement on an Assignment: eval_assignment.
EvalAssignmentOf(pool, ops, limit) ==
    /\ Running
    /\ steps < limit
    /\ \E a \in pool, op \in ops :
          LET name == a[1]
              rhs == a[2]
              ast == parse_assignment_or_expression(name, LexOperator(op), rhs)
              val == eval_expression(frames, m_current_env, ast.value)
              line == AssignLine(name, op, rhs)
          IN /\ frames' = EnvSet(frames, m_current_env, ast.name, val)
             /\ value' = val
             /\ stmt' = line
             /\ trace' = Traced(line)
             /\ stack' = NoteAssigned(name)
    /\ branch' = ""
    /\ steps' = steps + 1
    /\ UNCHANGED <<m_current_env, m_config, graphVars, runnerVars, callVars, parseVars>>

EvalAssignment == EvalAssignmentOf(AssignPool, {"=", "+="}, MaxSteps)

\* eval_statement on an ExpressionStatement.
EvalExpressionStatement ==
    /\ Running
    /\ steps < MaxSteps
    /\ \E expr \in ExprStmtPool :
          /\ value' = eval_expression(frames, m_current_env, parse_expression(expr))
          /\ stmt' = ExprLine(expr)
          /\ trace' = Traced(ExprLine(expr))
    /\ branch' = ""
    /\ steps' = steps + 1
    /\ UNCHANGED <<frames, m_current_env, m_config, stack, graphVars, runnerVars, callVars, parseVars>>

\* eval_if up to the call of eval_block on the block it selects.
EvalIfOf(pool, elses, limit) ==
    /\ Running
    /\ steps < limit
    /\ \E cond \in pool, has_else \in elses :
          LET condition == eval_expression(frames, m_current_env,
                                           parse_expression(cond))
              line == IfLine(cond, has_else)
          IN /\ value' = condition
             /\ stmt' = line
             /\ trace' = Traced(line)
             /\ IF is_truthy(condition)
                THEN /\ stack' = Append(stack, OpenBlock("then", m_current_env, "", ""))
                     /\ branch' = "then"
                ELSE IF has_else
                THEN /\ stack' = Append(stack, OpenBlock("else", m_current_env, "", ""))
                     /\ branch' = "else"
                ELSE /\ stack' = stack
                     /\ branch' = "skip"
    /\ steps' = steps + 1
    /\ UNCHANGED <<frames, m_current_env, m_config, graphVars, runnerVars, callVars, parseVars>>

EvalIf == EvalIfOf(CondPool, BOOLEAN, MaxSteps)

\* eval_unless up to the call of eval_block.
EvalUnless ==
    /\ Running
    /\ steps < MaxSteps
    /\ \E cond \in CondPool :
          LET condition == eval_expression(frames, m_current_env,
                                           parse_expression(cond))
              line == UnlessLine(cond)
          IN /\ value' = condition
             /\ stmt' = line
             /\ trace' = Traced(line)
             /\ IF ~is_truthy(condition)
                THEN /\ stack' = Append(stack, OpenBlock("unless", m_current_env, "", ""))
                     /\ branch' = "body"
                ELSE /\ stack' = stack
                     /\ branch' = "skip"
    /\ steps' = steps + 1
    /\ UNCHANGED <<frames, m_current_env, m_config, graphVars, runnerVars, callVars, parseVars>>

\* eval_block of an if or unless returns: the statement is over.
EvalIfEnd ==
    /\ Running
    /\ stack # <<>>
    /\ Top.kind \in {"then", "else", "unless"}
    /\ stack' = Pop(stack)
    /\ stmt' = EndLine(Top.kind, {})
    /\ trace' = Traced(EndLine(Top.kind, {}))
    /\ branch' = ""
    /\ UNCHANGED <<frames, m_current_env, m_config, value, steps, graphVars, runnerVars, callVars, parseVars>>

\* eval_target up to the call of eval_block: the child frame is pushed.
EvalTargetBeginOf(types, limit) ==
    /\ Running
    /\ steps < limit
    /\ \E type \in types, name \in TargetNames :
          /\ stack' = Append(stack, OpenBlock("target", m_current_env, type, name))
          /\ stmt' = TargetLine(type, name)
          /\ trace' = Traced(TargetLine(type, name))
    /\ frames' = Append(frames, NewEnvironment(m_current_env))
    /\ m_current_env' = Len(frames) + 1
    /\ branch' = ""
    /\ steps' = steps + 1
    /\ UNCHANGED <<m_config, value, graphVars, runnerVars, callVars, parseVars>>

EvalTargetBegin == EvalTargetBeginOf(TargetTypes, MaxSteps)

TargetTypeOf(target_type) ==
    IF target_type = "executable" THEN "Executable"
    ELSE IF target_type = "library" \/ target_type = "static_library" THEN "Library"
    ELSE IF target_type = "shared_library" THEN "SharedLibrary"
    ELSE "Executable"

\* The settings eval_target extracts after the body; defines holds the
\* define_list, before it is split at '='.
ExtractTarget(fr, e, block) ==
    [name |-> block.name,
     type |-> TargetTypeOf(block.target_type),
     sources |-> value_to_string_list(EnvGet(fr, e, "sources")),
     includes |-> value_to_string_list(EnvGet(fr, e, "includes")),
     flags |-> value_to_string_list(EnvGet(fr, e, "flags")),
     link_flags |-> value_to_string_list(EnvGet(fr, e, "link_flags")),
     dependencies |-> value_to_string_list(EnvGet(fr, e, "deps")),
     defines |-> value_to_string_list(EnvGet(fr, e, "defines"))]

\* eval_target after eval_block: extraction, push_back, frame restored.
EvalTargetEnd ==
    /\ Running
    /\ stack # <<>>
    /\ Top.kind = "target"
    /\ m_config' = [m_config EXCEPT !.targets =
                       Append(@, ExtractTarget(frames, m_current_env, Top))]
    /\ m_current_env' = Top.prev_env
    /\ frames' = Pop(frames)
    /\ stack' = Pop(stack)
    /\ stmt' = EndLine("target", Top.assigned)
    /\ trace' = Traced(EndLine("target", Top.assigned))
    /\ branch' = ""
    /\ UNCHANGED <<value, steps, graphVars, runnerVars, callVars, parseVars>>

\* eval_compiler up to the call of eval_block.
EvalCompilerBegin ==
    /\ Running
    /\ steps < MaxSteps
    /\ stack' = Append(stack, OpenBlock("compiler", m_current_env, "", ""))
    /\ frames' = Append(frames, NewEnvironment(m_current_env))
    /\ m_current_env' = Len(frames) + 1
    /\ stmt' = CompilerLine
    /\ trace' = Traced(CompilerLine)
    /\ branch' = ""
    /\ steps' = steps + 1
    /\ UNCHANGED <<m_config, value, graphVars, runnerVars, callVars, parseVars>>

\* The settings eval_compiler extracts: flags, then warnings, onto
\* global_flags; cc, then cxx, into compiler.
ExtractCompiler(cfg, fr, e) ==
    LET flags == EnvGet(fr, e, "flags")
        warnings == EnvGet(fr, e, "warnings")
        cc == EnvGet(fr, e, "cc")
        cxx == EnvGet(fr, e, "cxx")
        compiler1 == IF cc.t # "nullptr" THEN as_string(cc) ELSE cfg.compiler
    IN [cfg EXCEPT
          !.global_flags = @ \o value_to_string_list(flags)
                             \o value_to_string_list(warnings),
          !.compiler = IF cxx.t # "nullptr" THEN as_string(cxx) ELSE compiler1]

\* eval_compiler after eval_block.
EvalCompilerEnd ==
    /\ Running
    /\ stack # <<>>
    /\ Top.kind = "compiler"
    /\ m_config' = ExtractCompiler(m_config, frames, m_current_env)
    /\ m_current_env' = Top.prev_env
    /\ frames' = Pop(frames)
    /\ stack' = Pop(stack)
    /\ stmt' = EndLine("compiler", {})
    /\ trace' = Traced(EndLine("compiler", {}))
    /\ branch' = ""
    /\ UNCHANGED <<value, steps, graphVars, runnerVars, callVars, parseVars>>

InterpNext ==
    \/ EvalAssignment
    \/ EvalExpressionStatement
    \/ EvalIf
    \/ EvalUnless
    \/ EvalIfEnd
    \/ EvalTargetBegin
    \/ EvalTargetEnd
    \/ EvalCompilerBegin
    \/ EvalCompilerEnd

SpecInterp == InterpInit /\ [][InterpNext]_vars


(***************************************************************************)
(* Reference notions for the interpreter claims.                           *)
(***************************************************************************)
SameValue(x, y) == x.t = y.t /\ x.v = y.v

\* The value of a source expression in the current environment.
Val(src) == eval_expression(frames, m_current_env, parse_expression(src))

\* The step evaluates an assignment statement.
AssignmentStep == steps' = steps + 1 /\ stmt'.kind = "assign"

SeededBuildtype == frames[m_global_env].m_values["buildtype"].v

\* The first frame on the chain from e that binds name, 0 when none does.
RECURSIVE NearestFrame(_, _, _)
NearestFrame(fr, e, name) ==
    IF e = 0 THEN 0
    ELSE IF name \in DOMAIN fr[e].m_values THEN e
    ELSE NearestFrame(fr, fr[e].m_parent, name)

(***************************************************************************)
(* C5: after `flags = ["-Wall"]` and `if true do flags += ["-Wextra"] end` *)
(* the outer-frame variable flags is the array ["-Wall", "-Wextra"]; in    *)
(* general `a += e` with a and e both arrays rebinds a to the array of     *)
(* a's elements followed by e's elements.                                  *)
(***************************************************************************)
C5_PlusEqAppends ==
    /\ [](trace.lines = FlagsAppendScenario =>
            SameValue(EnvGet(frames, m_global_env, "flags"),
                      ArrayValue(<<StringValue("-Wall"), StringValue("-Wextra")>>)))
    /\ [][LET a == EnvGet(frames, m_current_env, stmt'.name)
              e == Val(stmt'.rhs)
          IN (AssignmentStep /\ stmt'.op = "+=" /\ a.t = "arr" /\ e.t = "arr")
             => SameValue(EnvGet(frames', m_current_env', stmt'.name),
                          ArrayValue(a.v \o e.v))]_vars

(***************************************************************************)
(* C6: with buildtype seeded as "release", the program                     *)
(* `compiler do if buildtype == "release" do flags = ["-O3"] end end`      *)
(* yields global_flags = ["-O3"]; with another buildtype global_flags      *)
(* stays empty.                                                            *)
(***************************************************************************)
C6_ReleaseFlags ==
    trace.lines \in {ReleaseFlagsTaken, ReleaseFlagsSkipped} =>
        m_config.global_flags =
            IF SeededBuildtype = "release" THEN <<"-O3">> ELSE <<>>

(***************************************************************************)
(* C7: `l == r` evaluates to Bool true exactly when l and r are strings    *)
(* of equal content (a symbol counts as its string), equal numbers, equal  *)
(* bools, or, for mixed types, have equal stringifications, and to Bool    *)
(* false otherwise; `l != r` evaluates to the Bool negation.               *)
(***************************************************************************)
ClaimedEqual(l, r) ==
    IF l.t = r.t THEN l.v = r.v ELSE to_string(l) = to_string(r)

C7_EqualityIsBool ==
    (stmt.kind = "expr" /\ stmt.expr.k = "binary") =>
        LET eq == ClaimedEqual(Val(stmt.expr.l), Val(stmt.expr.r))
        IN SameValue(value, BoolValue(IF stmt.expr.op = "==" THEN eq ELSE ~eq))

(***************************************************************************)
(* C8: in every conditional context (if, unless, not / !, and, or) the     *)
(* values Number 0, "" and [] are truthy; only nil and false are falsy.    *)
(***************************************************************************)
ClaimedTruthy(x) == ~(x.t = "nil" \/ (x.t = "bool" /\ x.v = FALSE))

C8_OnlyNilAndFalseFalsy ==
    /\ (stmt.kind = "if" /\ stmt.cond \in CondAtoms) =>
          ((branch = "then") <=> ClaimedTruthy(Val(stmt.cond)))
    /\ (stmt.kind = "unless" /\ stmt.cond \in CondAtoms) =>
          ((branch = "body") <=> ~ClaimedTruthy(Val(stmt.cond)))
    /\ (stmt.kind \in {"if", "unless"} /\ stmt.cond.k = "unary") =>
          SameValue(value, BoolValue(~ClaimedTruthy(Val(stmt.cond.e))))
    /\ (stmt.kind \in {"if", "unless"} /\ stmt.cond.k = "binary"
          /\ stmt.cond.op = "and") =>
          SameValue(value, BoolValue(ClaimedTruthy(Val(stmt.cond.l))
                                     /\ ClaimedTruthy(Val(stmt.cond.r))))
    /\ (stmt.kind \in {"if", "unless"} /\ stmt.cond.k = "binary"
          /\ stmt.cond.op = "or") =>
          SameValue(value, BoolValue(ClaimedTruthy(Val(stmt.cond.l))
                                     \/ ClaimedTruthy(Val(stmt.cond.r))))

(***************************************************************************)
(* C9: Environment::set(name, v) rebinds name in the nearest frame of the  *)
(* chain that already contains it and leaves every other frame unchanged;  *)
(* when no frame contains it, it defines name in the innermost frame       *)
(* only.  Consequently `a = 1; if true do a = 2 end; a` evaluates to 2.    *)
(***************************************************************************)
C9_SetRebindsNearest ==
    /\ [][AssignmentStep =>
            LET name == stmt'.name
                holder == NearestFrame(frames, m_current_env, name)
                written == IF holder # 0 THEN holder ELSE m_current_env
            IN /\ DOMAIN frames' = DOMAIN frames
               /\ \A i \in DOMAIN frames : i # written => frames'[i] = frames[i]
               /\ frames'[written].m_parent = frames[written].m_parent
               /\ DOMAIN frames'[written].m_values =
                     DOMAIN frames[written].m_values \cup {name}
               /\ SameValue(frames'[written].m_values[name], value')
               /\ \A n \in DOMAIN frames[written].m_values \ {name} :
                     frames'[written].m_values[n] = frames[written].m_values[n]]_vars
    /\ [](trace.lines = RebindScenario => SameValue(Val(SrcId("a")), NumberValue(2)))

\* Inside a compiler or target block, a = 2 has rebound the a of the global
\* frame, and the block's own frame does not bind a.
C9_Witness ==
    /\ stmt.kind = "assign"
    /\ stmt.name = "a"
    /\ m_current_env # m_global_env
    /\ "a" \notin DOMAIN frames[m_current_env].m_values
    /\ "a" \in DOMAIN frames[m_global_env].m_values
    /\ SameValue(frames[m_global_env].m_values["a"], NumberValue(2))
    /\ SameValue(value, NumberValue(2))

(***************************************************************************)
(* C10: a target's extracted fields come from its own block: a target      *)
(* block whose body does not assign a field (sources, includes, flags,     *)
(* link_flags, deps, defines) gets an empty value for that field,          *)
(* whatever is bound in the global frame or was assigned in earlier        *)
(* target or compiler blocks.                                              *)
(***************************************************************************)
C10_FieldsFromOwnBlock ==
    (stmt.kind = "end" /\ stmt.of = "target") =>
        LET target == m_config.targets[Len(m_config.targets)]
        IN \A var \in TargetVars \ stmt.assigned : target[FieldOf(var)] = <<>>


(***************************************************************************)
(* C11: in every BuildConfig returned by Interpreter::execute the target   *)
(* names are pairwise distinct, also when the program declares two target  *)
(* blocks with the same name.                                              *)
(***************************************************************************)
C11_TargetNamesDistinct ==
    stack = <<>> =>
        \A i, j \in DOMAIN m_config.targets :
            i # j => m_config.targets[i].name # m_config.targets[j].name

(***************************************************************************)
(* C20: each executed compiler block appends to global_flags its own       *)
(* `flags` list followed by its own `warnings` list, so that global_flags  *)
(* is the concatenation of these in execution order; a block that assigns  *)
(* neither name adds nothing.                                              *)
(***************************************************************************)
\* The list a compiler block contributes for a name its body assigned.
OwnList(name) ==
    IF name \in Top.assigned
    THEN value_to_string_list(EnvGet(frames, m_current_env, name))
    ELSE <<>>

C20_GlobalFlagsPerBlock ==
    [][(stack # <<>> /\ Top.kind = "compiler" /\ stack' = Pop(stack)
          /\ stmt'.kind = "end")
       => m_config'.global_flags =
             m_config.global_flags \o OwnList("flags") \o OwnList("warnings")]_vars


(***************************************************************************)
(* Interpreter: functions, tasks, dependency blocks, return and error.     *)
(* The body of a function or task is evaluated line by line when it is     *)
(* called; a definition statement stores the callable and passes over the  *)
(* body.                                                                   *)
(***************************************************************************)
MaxCallSteps == 5

FnNames == {"f", "platform"}

TaskNames == {"build"}

DependencyNames == {"zlib"}

CallAssignPool == {<<"a", SrcNum(1)>>, <<"__task_build", SrcNum(1)>>}

CallCondPool == {SrcTrue, SrcFalse}

SrcCall(name, args) == [k |-> "call", name |-> name, args |-> args]

\* Call statements: a user function, a built-in, error(msg), a task.
CallPool ==
    {SrcCall("f", <<>>), SrcCall("platform", <<>>),
     SrcCall("error", <<SrcStr("boom")>>), SrcCall("task_build", <<>>)}

\* return, and return 2.
ReturnPool == {<<>>, <<SrcNum(2)>>}

FnLine(name) == [kind |-> "fn", name |-> name]

TaskLine(name) == [kind |-> "task", name |-> name]

DependencyLine(name) == [kind |-> "dependency", name |-> name]

CallLine(call) == [kind |-> "call", name |-> call.name, args |-> call.args]

ReturnLine(val) == [kind |-> "return", val |-> val]

RuntimeError(msg) == [kind |-> "runtime_error", what |-> msg]

\* A thrown IrisValuePtr: what `return e` raises.
ThrownValue == [kind |-> "value", what |-> ""]

\* The blocks whose activation owns an Environment.
FrameKinds == {"target", "compiler", "fn", "task"}

\* The index in frames of the environment in use below stack entry k.
FramesBelow(k) ==
    1 + Cardinality({i \in 1..(k - 1) : stack[i].kind \in FrameKinds})

\* A variant in which the function wrapper catches every exception.
CatchesAnything(entry, exc) == entry.kind = "fn"

\* The try / catch (IrisValuePtr&) of the callable eval_function_def stores;
\* no other activation has a handler.
Catches(entry, exc) == entry.kind = "fn" /\ exc.kind = "value"

\* The innermost activation that catches exc, 0 when none does.
Handler(exc) ==
    LET idx == {i \in DOMAIN stack : Catches(stack[i], exc)}
    IN IF idx = {} THEN 0 ELSE CHOOSE i \in idx : \A j \in idx : j <= i

\* exc is thrown while the statement is evaluated: it unwinds to its handler,
\* which makes val the value of the call, or it leaves execute.
Throw(exc, val) ==
    LET k == Handler(exc)
    IN IF k = 0
       THEN /\ failure' = exc
            /\ UNCHANGED <<frames, m_current_env, stack, value>>
       ELSE /\ failure' = failure
            /\ stack' = SubSeq(stack, 1, k - 1)
            /\ frames' = SubSeq(frames, 1, FramesBelow(k))
            /\ m_current_env' = stack[k].prev_env
            /\ value' = IF exc.kind = "value" THEN val ELSE NilValue

\* A variant that keeps the callable a name already has (std::map::insert).
RegisterIfAbsent(registry, name, callable) ==
    IF name \in DOMAIN registry THEN registry ELSE Bind(registry, name, callable)

\* m_native_functions[name] = callable.
Register(registry, name, callable) == Bind(registry, name, callable)

\* A variant that defines the task's metadata in the current frame.
TaskMetadataInCurrent(fr, name) ==
    EnvDefine(fr, m_current_env, "__task_" \o name, StringValue(name))

\* m_global_env->define("__task_" + block->name, task_val).
TaskMetadata(fr, name) ==
    EnvDefine(fr, m_global_env, "__task_" \o name, StringValue(name))

\* eval_function_def: the callable, which captures the definition and so
\* its parameters, replaces whatever the name held.
EvalFunctionDefOf(names, parameterLists) ==
    /\ Running
    /\ steps < MaxCallSteps
    /\ \E name \in names, parameters \in parameterLists :
          /\ m_native_functions' =
                Register(m_native_functions, name,
                         [kind |-> "fn", parameters |-> parameters])
          /\ defined' = defined \cup {name}
          /\ stmt' = FnLine(name)
    /\ steps' = steps + 1
    /\ branch' = ""
    /\ trace' = TraceOff
    /\ UNCHANGED <<frames, m_current_env, m_config, stack, value, failure,
                   returned, graphVars, runnerVars, parseVars>>

EvalFunctionDef == EvalFunctionDefOf(FnNames, {<<>>})

\* eval_task: the callable is stored and __task_<name> defined globally.
EvalTask ==
    /\ Running
    /\ steps < MaxCallSteps
    /\ \E name \in TaskNames :
          /\ m_native_functions' =
                Register(m_native_functions, "task_" \o name, [kind |-> "task"])
          /\ frames' = TaskMetadata(frames, name)
          /\ stmt' = TaskLine(name)
    /\ steps' = steps + 1
    /\ branch' = ""
    /\ trace' = TraceOff
    /\ UNCHANGED <<m_current_env, m_config, stack, value, failure, returned,
                   defined, graphVars, runnerVars, parseVars>>

\* eval_statement on a DependencyBlock: no branch of the chain matches.
EvalDependency ==
    /\ Running
    /\ steps < MaxCallSteps
    /\ \E name \in DependencyNames : stmt' = DependencyLine(name)
    /\ steps' = steps + 1
    /\ branch' = ""
    /\ trace' = TraceOff
    /\ UNCHANGED <<frames, m_current_env, m_config, stack, value, callVars,
                   graphVars, runnerVars, parseVars>>

\* The native callables of the call statements: platform() and the others,
\* which return a value; error is the one that throws.
NativeResult(name, args) == IF name = "platform" THEN HostPlatform ELSE NilValue

\* What error(args) throws.
ErrorMessage(args) == IF args = <<>> THEN "Build error" ELSE as_string(args[1])

\* A variant in which every callable runs in a child of the caller's frame.
CallerParent(callable) == m_current_env

\* The parent of the frame a callable runs in: a user function runs in a
\* fresh child of the global frame, a task in a child of the current one.
CalleeParent(callable) ==
    IF callable.kind = "fn" THEN m_global_env ELSE m_current_env

\* for (i = 0; i < parameters.size() && i < args.size(); i++) define(...).
RECURSIVE BindLoop(_, _, _, _)
BindLoop(values, parameters, args, i) ==
    IF i <= Len(parameters) /\ i <= Len(args)
    THEN BindLoop(Bind(values, parameters[i], args[i]), parameters, args, i + 1)
    ELSE values

\* The frame of an activation: a function's has its parameters bound, a
\* task's is empty.
CalleeFrame(callable, args) ==
    [m_values |-> IF callable.kind = "fn"
                  THEN BindLoop(NoValues, callable.parameters, args, 1)
                  ELSE NoValues,
     m_parent |-> CalleeParent(callable)]

\* eval_call of a call statement: arguments, lookup, invocation.
EvalCallOf(pool) ==
    /\ Running
    /\ steps < MaxCallSteps
    /\ \E call \in pool :
          LET name == call.name
              args == [i \in DOMAIN call.args |->
                          eval_expression(frames, m_current_env,
                                          parse_expression(call.args[i]))]
          IN /\ stmt' = CallLine(call)
             /\ IF name \notin DOMAIN m_native_functions
                THEN Throw(RuntimeError("Unknown function: " \o name), NilValue)
                ELSE IF m_native_functions[name].kind = "native"
                THEN IF name = "error"
                     THEN Throw(RuntimeError(ErrorMessage(args)), NilValue)
                     ELSE /\ value' = NativeResult(name, args)
                          /\ UNCHANGED <<frames, m_current_env, stack, failure>>
                ELSE /\ stack' = Append(stack,
                            OpenBlock(m_native_functions[name].kind,
                                      m_current_env, "", name))
                     /\ frames' = Append(frames,
                            CalleeFrame(m_native_functions[name], args))
                     /\ m_current_env' = Len(frames) + 1
                     /\ UNCHANGED <<value, failure>>
    /\ steps' = steps + 1
    /\ branch' = ""
    /\ trace' = TraceOff
    /\ UNCHANGED <<m_config, m_native_functions, returned, defined, graphVars, runnerVars,
                   parseVars>>

EvalCall == EvalCallOf(CallPool)

\* eval_statement on a ReturnStatement: a value is thrown, a bare return
\* does nothing.
EvalReturn ==
    /\ Running
    /\ steps < MaxCallSteps
    /\ \E val \in ReturnPool :
          /\ stmt' = ReturnLine(val)
          /\ IF val = <<>>
             THEN UNCHANGED <<frames, m_current_env, stack, value, failure>>
             ELSE Throw(ThrownValue,
                        eval_expression(frames, m_current_env,
                                        parse_expression(val[1])))
    /\ steps' = steps + 1
    /\ branch' = ""
    /\ trace' = TraceOff
    /\ UNCHANGED <<m_config, m_native_functions, returned, defined, graphVars, runnerVars,
                   parseVars>>

\* The body of a function or task is over: the callable returns nil.
EvalCallEnd ==
    /\ Running
    /\ stack # <<>>
    /\ Top.kind \in {"fn", "task"}
    /\ stack' = Pop(stack)
    /\ frames' = Pop(frames)
    /\ m_current_env' = Top.prev_env
    /\ value' = NilValue
    /\ stmt' = EndLine(Top.kind, {})
    /\ branch' = ""
    /\ trace' = TraceOff
    /\ UNCHANGED <<m_config, steps, callVars, graphVars, runnerVars, parseVars>>

\* execute: the loop over ast.statements is over, m_config is returned.
ExecuteReturn ==
    /\ Running
    /\ stack = <<>>
    /\ returned' = <<m_config>>
    /\ UNCHANGED <<interpVars, m_native_functions, failure, defined, graphVars, runnerVars,
                   parseVars>>

CallAssignment == EvalAssignmentOf(CallAssignPool, {"="}, MaxCallSteps)

CallIf == EvalIfOf(CallCondPool, {FALSE}, MaxCallSteps)

CallTargetBegin == EvalTargetBeginOf({"executable"}, MaxCallSteps)

CallNext ==
    \/ CallAssignment
    \/ CallIf
    \/ EvalIfEnd
    \/ CallTargetBegin
    \/ EvalTargetEnd
    \/ EvalFunctionDef
    \/ EvalTask
    \/ EvalDependency
    \/ EvalCall
    \/ EvalReturn
    \/ EvalCallEnd
    \/ ExecuteReturn

SpecCall == InterpInit /\ [][CallNext]_vars


(***************************************************************************)
(* Reference notions for the claims about calls.                           *)
(***************************************************************************)
CallStep == steps' = steps + 1 /\ stmt'.kind = "call"

ReturnStep == steps' = steps + 1 /\ stmt'.kind = "return"

\* The innermost activation of a user function, 0 when there is none.
InnermostFn ==
    LET idx == {i \in DOMAIN stack : stack[i].kind = "fn"}
    IN IF idx = {} THEN 0 ELSE CHOOSE i \in idx : \A j \in idx : j <= i

(***************************************************************************)
(* C12: when the built-in error(msg) is called, interpretation aborts      *)
(* with an error whose message contains msg: no statement after the call   *)
(* is evaluated, no further target is appended, and execute returns no     *)
(* BuildConfig to the caller.                                              *)
(***************************************************************************)
C12_ErrorAborts ==
    /\ [][(CallStep /\ stmt'.name = "error"
             /\ m_native_functions["error"].kind = "native")
          => /\ failure'.kind = "runtime_error"
             /\ failure'.what = as_string(Val(stmt'.args[1]))]_vars
    /\ [][failure.kind = "runtime_error"
          => UNCHANGED <<stmt, steps, m_config, returned>>]_vars
    /\ [](failure.kind = "runtime_error" => returned = <<>>)

\* error("boom") was called inside a user function after a target had been
\* appended, and the run is aborted with that message.
C12_Witness ==
    /\ failure.kind = "runtime_error"
    /\ failure.what = "boom"
    /\ InnermostFn # 0
    /\ Len(m_config.targets) = 1

(***************************************************************************)
(* C14: when a return statement executes inside a user function body,      *)
(* with or without a value and also inside nested blocks, control leaves   *)
(* the body (no later statement of it is executed) and the call evaluates  *)
(* to the returned value, nil for a bare return; a body that executes no   *)
(* return evaluates to nil.                                                *)
(***************************************************************************)
C14_ReturnLeavesBody ==
    /\ [][(ReturnStep /\ InnermostFn # 0)
          => /\ Len(stack') = InnermostFn - 1
             /\ m_current_env' = stack[InnermostFn].prev_env
             /\ SameValue(value', IF stmt'.val = <<>> THEN NilValue
                                  ELSE Val(stmt'.val[1]))]_vars
    /\ [][(stack # <<>> /\ Top.kind = "fn" /\ stack' = Pop(stack)
             /\ stmt'.kind = "end")
          => SameValue(value', NilValue)]_vars

(***************************************************************************)
(* C15: a user definition fn with the name of a built-in function replaces *)
(* the built-in: a call of that name made after the definition has         *)
(* executed invokes the user function, a call made before it invokes the   *)
(* built-in.                                                               *)
(***************************************************************************)
C15_FnReplacesBuiltin ==
    [][(CallStep /\ stmt'.name \in BuiltinNames)
       => IF stmt'.name \in defined
          THEN /\ Len(stack') = Len(stack) + 1
               /\ stack'[Len(stack')].kind = "fn"
               /\ stack'[Len(stack')].name = stmt'.name
          ELSE /\ Len(stack') <= Len(stack)
               /\ stmt'.name = "error" => failure'.kind = "runtime_error"
               /\ stmt'.name = "platform" =>
                      /\ failure' = failure
                      /\ SameValue(value', HostPlatform)]_vars

\* platform() is being executed as the user function defined under the
\* built-in's name.
C15_Witness ==
    /\ "platform" \in defined
    /\ stmt.kind = "call"
    /\ stmt.name = "platform"
    /\ stack # <<>>
    /\ Top.kind = "fn"
    /\ Top.name = "platform"

(***************************************************************************)
(* C18: a dependency block evaluates its body and appends one entry named  *)
(* after the block to the dependencies of the build configuration, so that *)
(* k dependency blocks give k entries in source order.                     *)
(***************************************************************************)
C18_DependencyAppended ==
    [][(steps' = steps + 1 /\ stmt'.kind = "dependency")
       => /\ Len(m_config'.dependencies) = Len(m_config.dependencies) + 1
          /\ m_config'.dependencies[Len(m_config'.dependencies)].name
                = stmt'.name]_vars

(***************************************************************************)
(* C19: a task block only registers the callable task_<name>; its body is  *)
(* not executed, and the build configuration and every variable binding    *)
(* that existed before the block are unchanged; the body runs only when    *)
(* task_<name>() is called.                                                *)
(***************************************************************************)
TaskStep == steps' = steps + 1 /\ stmt'.kind = "task"

\* Every binding of every frame keeps its value, except those named in skip.
BindingsKept(skip) ==
    /\ DOMAIN frames \subseteq DOMAIN frames'
    /\ \A i \in DOMAIN frames :
          /\ frames'[i].m_parent = frames[i].m_parent
          /\ \A n \in DOMAIN frames[i].m_values \ skip :
                /\ n \in DOMAIN frames'[i].m_values
                /\ SameValue(frames'[i].m_values[n], frames[i].m_values[n])

\* A task body is entered only by a call of task_<name>.
TaskBodyOnlyByCall ==
    [][(Len(stack') = Len(stack) + 1 /\ stack'[Len(stack')].kind = "task")
       => /\ CallStep
          /\ stmt'.name = stack'[Len(stack')].name]_vars

\* The claim as stated.
C19_TaskOnlyRegisters ==
    /\ [][TaskStep
          => /\ "task_" \o stmt'.name \in DOMAIN m_native_functions'
             /\ m_native_functions'["task_" \o stmt'.name].kind = "task"
             /\ m_config' = m_config
             /\ stack' = stack
             /\ m_current_env' = m_current_env
             /\ BindingsKept({})]_vars
    /\ TaskBodyOnlyByCall

\* The claim with the block's own metadata variable set apart: the global
\* frame gains __task_<name>, bound to the task's name, and nothing else
\* changes.
C19_TaskRegistersAndTags ==
    /\ [][TaskStep
          => /\ "task_" \o stmt'.name \in DOMAIN m_native_functions'
             /\ m_native_functions'["task_" \o stmt'.name].kind = "task"
             /\ m_config' = m_config
             /\ stack' = stack
             /\ m_current_env' = m_current_env
             /\ BindingsKept({"__task_" \o stmt'.name})
             /\ DOMAIN frames' = DOMAIN frames
             /\ \A i \in DOMAIN frames :
                   DOMAIN frames'[i].m_values =
                      DOMAIN frames[i].m_values \cup
                         (IF i = m_global_env
                          THEN {"__task_" \o stmt'.name} ELSE {})
             /\ SameValue(frames'[m_global_env].m_values["__task_" \o stmt'.name],
                          StringValue(stmt'.name))]_vars
    /\ TaskBodyOnlyByCall

\* A task block has executed inside a target block that had already bound a
\* variable, and its body has not been entered.
C19_Witness ==
    /\ stmt.kind = "task"
    /\ stack # <<>>
    /\ Top.kind = "target"
    /\ "a" \in DOMAIN frames[m_current_env].m_values
    /\ "task_build" \in DOMAIN m_native_functions
    /\ \A i \in DOMAIN stack : stack[i].kind # "task"

(***************************************************************************)
(* The front end: Lexer::tokenize and Parser::parse on a source text.      *)
(* A source text is a sequence of units.  A unit is one character, or a    *)
(* run of letters written as one string; the text is the concatenation of  *)
(* its units.  The texts of the model hold no backslash, no comment, no    *)
(* digit run longer than one digit and no bracket.                         *)
(***************************************************************************)
MaxSourceLen == 4

MaxChain == 2

WordUnits ==
    {"x", "p", "q", "r", "e", "if", "do", "else", "end", "nil", "return",
     "true", "false"}

DigitUnits == {"0", "1", "2"}

Quote == "\""

\* Lexer::keywords.
keywords ==
    ("project" :> "PROJECT") @@ ("executable" :> "EXECUTABLE") @@
    ("library" :> "LIBRARY") @@ ("shared_library" :> "SHARED_LIBRARY") @@
    ("static_library" :> "STATIC_LIBRARY") @@ ("compiler" :> "COMPILER") @@
    ("dependency" :> "DEPENDENCY") @@ ("task" :> "TASK") @@ ("if" :> "IF") @@
    ("else" :> "ELSE") @@ ("unless" :> "UNLESS") @@ ("for" :> "FOR") @@
    ("in" :> "IN") @@ ("do" :> "DO") @@ ("end" :> "END") @@ ("fn" :> "FN") @@
    ("return" :> "RETURN") @@ ("true" :> "TRUE") @@ ("false" :> "FALSE") @@
    ("nil" :> "NIL") @@ ("and" :> "AND") @@ ("or" :> "OR") @@ ("not" :> "NOT")

is_alpha(c) == c \in WordUnits

is_digit(c) == c \in DigitUnits

\* The position after the run of units of class S that starts at pos.
RECURSIVE RunEnd(_, _, _)
RunEnd(src, pos, S) ==
    IF pos <= Len(src) /\ src[pos] \in S THEN RunEnd(src, pos + 1, S) ELSE pos

\* value += current() over the units from..to.
RECURSIVE Lexeme(_, _, _)
Lexeme(src, from, to) ==
    IF from > to THEN "" ELSE src[from] \o Lexeme(src, from + 1, to)

skip_whitespace(src, pos) == RunEnd(src, pos, {" ", "\t", "\r"})

\* The position of the closing quote, Len(src) + 1 when there is none.
RECURSIVE StringEnd(_, _)
StringEnd(src, pos) ==
    IF pos <= Len(src) /\ src[pos] # Quote THEN StringEnd(src, pos + 1) ELSE pos

\* scan_string with pos at the opening quote.
scan_string(src, pos) ==
    LET close == StringEnd(src, pos + 1)
    IN IF close > Len(src)
       THEN [token |-> make_token("ERROR", "Unterminated string"), pos |-> close]
       ELSE [token |-> make_token("STRING", Lexeme(src, pos + 1, close - 1)),
             pos |-> close + 1]

scan_number(src, pos) ==
    LET stop == RunEnd(src, pos, DigitUnits)
    IN [token |-> make_token("NUMBER", Lexeme(src, pos, stop - 1)), pos |-> stop]

scan_identifier_or_keyword(src, pos) ==
    LET stop == RunEnd(src, pos, WordUnits \cup DigitUnits \cup {"_"})
        val  == Lexeme(src, pos, stop - 1)
    IN [token |-> make_token(IF val \in DOMAIN keywords THEN keywords[val]
                             ELSE "IDENTIFIER", val),
        pos |-> stop]

\* Lexer::next_token from pos: the token and the position after it.
next_token(src, pos) ==
    LET at == skip_whitespace(src, pos)
    IN IF at > Len(src)
       THEN [token |-> make_token("END_OF_FILE", ""), pos |-> at]
       ELSE LET c == src[at]
            IN IF c = "\n"
               THEN [token |-> make_token("NEWLINE", ""), pos |-> at + 1]
               ELSE IF c = Quote THEN scan_string(src, at)
               ELSE IF is_digit(c) THEN scan_number(src, at)
               ELSE IF is_alpha(c) \/ c = "_"
               THEN scan_identifier_or_keyword(src, at)
               ELSE IF c = "="
               THEN IF at < Len(src) /\ src[at + 1] = "="
                    THEN [token |-> make_token("EQEQ", ""), pos |-> at + 2]
                    ELSE [token |-> make_token("EQ", ""), pos |-> at + 1]
               ELSE [token |-> make_token("ERROR", c), pos |-> at + 1]

(***************************************************************************)
(* Parser on the token vector.  Every parse function takes the tokens and  *)
(* m_current and gives [ok, node, pos], or [ok, err, pos] when it throws.  *)
(***************************************************************************)
current_token(toks, pos) ==
    IF pos > Len(toks) THEN make_token("END_OF_FILE", "") ELSE toks[pos]

check(toks, pos, type) == current_token(toks, pos).type = type

parser_at_end(toks, pos) == check(toks, pos, "END_OF_FILE")

RECURSIVE skip_newlines(_, _)
skip_newlines(toks, pos) ==
    IF check(toks, pos, "NEWLINE") THEN skip_newlines(toks, pos + 1) ELSE pos

Parsed(node, pos) == [ok |-> TRUE, node |-> node, pos |-> pos]

\* Parser::error at the current token.
ParseError(toks, pos, message) ==
    [ok |-> FALSE,
     err |-> message \o " at '" \o current_token(toks, pos).value \o "'",
     pos |-> pos]

NullNode == [node |-> "nullptr"]

Block(statements) == [node |-> "Block", statements |-> statements]

IfStatement(condition, then_block, else_block) ==
    [node |-> "IfStatement", condition |-> condition,
     then_block |-> then_block, else_block |-> else_block]

\* The literals and names among the primaries; no token of the model opens
\* an array, a hash or a group.
parse_primary(toks, pos) ==
    LET tok == current_token(toks, pos)
    IN IF tok.type = "STRING"
       THEN Parsed([node |-> "StringLiteral", value |-> tok.value], pos + 1)
       ELSE IF tok.type = "NUMBER"
       THEN Parsed([node |-> "NumberLiteral", value |-> Stod(tok.value)], pos + 1)
       ELSE IF tok.type = "TRUE"
       THEN Parsed([node |-> "BoolLiteral", value |-> TRUE], pos + 1)
       ELSE IF tok.type = "FALSE"
       THEN Parsed([node |-> "BoolLiteral", value |-> FALSE], pos + 1)
       ELSE IF tok.type = "SYMBOL"
       THEN Parsed([node |-> "Symbol", name |-> tok.value], pos + 1)
       ELSE IF tok.type = "IDENTIFIER"
       THEN Parsed(Identifier(tok.value), pos + 1)
       ELSE ParseError(toks, pos, "Expected expression")

RECURSIVE equality_loop(_, _, _)

\* The right operand of == or != joined to the left one, and the loop again.
EqualityJoin(toks, op, left, right) ==
    IF ~right.ok THEN right
    ELSE equality_loop(toks, parse_equality(op, left, right.node), right.pos)

equality_loop(toks, left, pos) ==
    IF current_token(toks, pos).type \in {"EQEQ", "NEQ"}
    THEN EqualityJoin(toks, toks[pos], left, parse_primary(toks, pos + 1))
    ELSE Parsed(left, pos)

\* The loop of parse_equality after its first operand.
EqualityFrom(toks, left) ==
    IF ~left.ok THEN left ELSE equality_loop(toks, left.node, left.pos)

\* parse_expression on tokens: the levels between parse_equality and
\* parse_primary match no token of the model.
expression_at(toks, pos) == EqualityFrom(toks, parse_primary(toks, pos))

\* The assignment once its right-hand side is parsed.
AssignmentOf(name, rhs) ==
    IF ~rhs.ok THEN rhs
    ELSE Parsed([node |-> "Assignment", name |-> name, value |-> rhs.node],
                rhs.pos)

\* The expression statement once its expression is parsed.
ExpressionStatementOf(e) ==
    IF ~e.ok THEN e
    ELSE Parsed([node |-> "ExpressionStatement", expression |-> e.node], e.pos)

\* parse_assignment_or_expression on tokens.
assignment_or_expression_at(toks, pos) ==
    IF check(toks, pos, "IDENTIFIER") /\ check(toks, pos + 1, "EQ")
    THEN AssignmentOf(toks[pos].value, expression_at(toks, pos + 2))
    ELSE ExpressionStatementOf(expression_at(toks, pos))

\* A variant that asks for the closing end after every else.
AlwaysNeedsEnd(else_block) == TRUE

\* The condition under which parse_if_statement consumes END.
NeedsEnd(else_block) ==
    \/ else_block.node = "nullptr"
    \/ else_block.statements = <<>>
    \/ else_block.statements[1].node # "IfStatement"

RECURSIVE parse_statement(_, _)
RECURSIVE block_loop(_, _, _)
RECURSIVE parse_if_statement(_, _)

\* The return statement once its value, if any, is parsed.
ReturnOf(val) ==
    IF ~val.ok THEN val
    ELSE Parsed([node |-> "ReturnStatement", value |-> val.node], val.pos)

\* parse_statement; the model's tokens open no other kind of statement.
parse_statement(toks, pos) ==
    LET at == skip_newlines(toks, pos)
    IN IF check(toks, at, "IF") THEN parse_if_statement(toks, at + 1)
       ELSE IF check(toks, at, "RETURN")
       THEN IF ~check(toks, at + 1, "NEWLINE") /\ ~check(toks, at + 1, "END")
            THEN ReturnOf(expression_at(toks, at + 1))
            ELSE Parsed([node |-> "ReturnStatement", value |-> NullNode], at + 1)
       ELSE assignment_or_expression_at(toks, at)

\* push_back of the parsed statement, skip_newlines, and the loop again.
BlockPush(toks, statements, st) ==
    IF ~st.ok THEN st
    ELSE block_loop(toks, Append(statements, st.node),
                    skip_newlines(toks, st.pos))

\* The loop of parse_block, pos after the newlines.
block_loop(toks, statements, pos) ==
    IF ~check(toks, pos, "END") /\ ~check(toks, pos, "ELSE")
          /\ ~parser_at_end(toks, pos)
    THEN BlockPush(toks, statements, parse_statement(toks, pos))
    ELSE Parsed(Block(statements), pos)

parse_block(toks, pos) == block_loop(toks, <<>>, skip_newlines(toks, pos))

\* The end of parse_if_statement: END is consumed only if NeedsEnd.
IfClose(toks, condition, then_block, else_block) ==
    IF ~else_block.ok THEN else_block
    ELSE IF ~NeedsEnd(else_block.node)
    THEN Parsed(IfStatement(condition, then_block, else_block.node),
                else_block.pos)
    ELSE IF check(toks, else_block.pos, "END")
    THEN Parsed(IfStatement(condition, then_block, else_block.node),
                else_block.pos + 1)
    ELSE ParseError(toks, else_block.pos,
                    "Expected 'end' to close if statement")

\* else if: a block holding just the inner if statement.
ElseIfBlock(inner) ==
    IF ~inner.ok THEN inner ELSE Parsed(Block(<<inner.node>>), inner.pos)

\* The optional else of parse_if_statement, after the then block.
IfElse(toks, condition, then_block) ==
    IF ~then_block.ok THEN then_block
    ELSE IF ~check(toks, then_block.pos, "ELSE")
    THEN IfClose(toks, condition, then_block.node,
                 Parsed(NullNode, then_block.pos))
    ELSE IF check(toks, then_block.pos + 1, "IF")
    THEN IfClose(toks, condition, then_block.node,
                 ElseIfBlock(parse_if_statement(toks, then_block.pos + 2)))
    ELSE IfClose(toks, condition, then_block.node,
                 parse_block(toks, then_block.pos + 1))

\* The do and the then block of parse_if_statement, after the condition.
IfThen(toks, cond) ==
    IF ~cond.ok THEN cond
    ELSE IF ~check(toks, cond.pos, "DO")
    THEN ParseError(toks, cond.pos, "Expected 'do' after if condition")
    ELSE IfElse(toks, cond.node, parse_block(toks, cond.pos + 1))

\* parse_if_statement, pos after IF.
parse_if_statement(toks, pos) == IfThen(toks, expression_at(toks, pos))

RECURSIVE parse_loop(_, _, _)

\* push_back of the parsed statement in Parser::parse.
ParsePush(toks, statements, st) ==
    IF ~st.ok THEN st
    ELSE parse_loop(toks, Append(statements, st.node), st.pos)

\* The loop of Parser::parse.
parse_loop(toks, statements, pos) ==
    IF parser_at_end(toks, pos) \/ parser_at_end(toks, skip_newlines(toks, pos))
    THEN Parsed(statements, skip_newlines(toks, pos))
    ELSE ParsePush(toks, statements,
                   parse_statement(toks, skip_newlines(toks, pos)))

parse(toks) == parse_loop(toks, <<>>, 1)

(***************************************************************************)
(* Interpreter on a parsed program: eval_block, eval_statement, eval_if    *)
(* and eval_assignment at the top level, where m_current_env is the global *)
(* frame.  The result is [ok, frames]; ok is FALSE when a return with a    *)
(* value has thrown.                                                       *)
(***************************************************************************)
RECURSIVE eval_block(_, _)
RECURSIVE eval_statement(_, _)

eval_statement(fr, st) ==
    IF st.node = "IfStatement"
    THEN IF is_truthy(eval_expression(fr, m_global_env, st.condition))
         THEN eval_block(fr, st.then_block.statements)
         ELSE IF st.else_block.node # "nullptr"
         THEN eval_block(fr, st.else_block.statements)
         ELSE [ok |-> TRUE, frames |-> fr]
    ELSE IF st.node = "Assignment"
    THEN [ok |-> TRUE,
          frames |-> EnvSet(fr, m_global_env, st.name,
                            eval_expression(fr, m_global_env, st.value))]
    ELSE IF st.node = "ReturnStatement" /\ st.value.node # "nullptr"
    THEN [ok |-> FALSE, frames |-> fr]
    ELSE [ok |-> TRUE, frames |-> fr]

eval_block(fr, statements) ==
    IF statements = <<>> THEN [ok |-> TRUE, frames |-> fr]
    ELSE LET first == eval_statement(fr, Head(statements))
         IN IF ~first.ok THEN first
            ELSE eval_block(first.frames, Tail(statements))

(***************************************************************************)
(* Source texts of the front end.                                          *)
(***************************************************************************)
\* Every short text over these units.
FreeUnits == {"x", Quote, "@", " ", "\n", "="}

\* The units of a list of words, one blank between neighbours.
RECURSIVE Spaced(_)
Spaced(words) ==
    IF Len(words) <= 1 THEN words
    ELSE <<Head(words), " ">> \o Spaced(Tail(words))

NilPrograms == {Spaced(<<"x", "=", "nil">>), Spaced(<<"return", "nil">>)}

\* The variable assigned by the i-th body of a chain, and by its final else.
BodyNames == <<"p", "q", "r", "x">>

ElseName == "e"

PlainWords(name) == <<name, "=", "1">>

NestedIfWords(name) == <<"if", "true", "do", "\n", name, "=", "2", "\n", "end">>

\* A then body: an assignment, or a nested if statement and an assignment.
ThenWords(variant, name) ==
    IF variant = "plain" THEN PlainWords(name)
    ELSE NestedIfWords(name) \o <<"\n">> \o PlainWords(name)

\* A final else body: an assignment, an assignment and a nested if, or a
\* nested if and an assignment.
ElseWords(variant, name) ==
    IF variant = "plain" THEN PlainWords(name)
    ELSE IF variant = "nested"
    THEN PlainWords(name) \o <<"\n">> \o NestedIfWords(name)
    ELSE NestedIfWords(name) \o <<"\n">> \o PlainWords(name)

\* if c1 do S1 else if c2 do S2 ... [else Se] end
Chains ==
    UNION {[conds : [1..n -> {"true", "false"}],
            thens : [1..n -> {"plain", "nested"}],
            final : {"none", "plain", "nested", "iffirst"}] : n \in 1..MaxChain}

RECURSIVE ChainWords(_, _)
ChainWords(c, i) ==
    <<"if", c.conds[i], "do", "\n">> \o ThenWords(c.thens[i], BodyNames[i])
       \o <<"\n">> \o
       (IF i < Len(c.conds) THEN <<"else">> \o ChainWords(c, i + 1)
        ELSE IF c.final # "none"
        THEN <<"else", "\n">> \o ElseWords(c.final, ElseName) \o <<"\n", "end">>
        ELSE <<"end">>)

Render(c) == Spaced(ChainWords(c, 1))

ChainSource == [c \in Chains |-> Render(c)]

Sources ==
    SeqsUpTo(FreeUnits, MaxSourceLen) \cup NilPrograms
       \cup {ChainSource[c] : c \in Chains}

(***************************************************************************)
(* The pipeline of cmd_setup: Parser::parse (tokenize, then the statement  *)
(* loop) and Interpreter::execute.                                         *)
(***************************************************************************)
ParseInit ==
    /\ m_source \in Sources
    /\ m_pos = 1
    /\ m_tokens = <<>>
    /\ parsed = <<>>
    /\ pipeline = "source"
    /\ frames = GlobalFrame([n \in {"buildtype"} |-> "debug"])
    /\ m_current_env = m_global_env
    /\ m_config = EmptyConfig
    /\ stack = <<>>
    /\ stmt = [kind |-> "none"]
    /\ value = NilValue
    /\ branch = ""
    /\ steps = 0
    /\ trace = TraceOff
    /\ m_native_functions = Builtins
    /\ failure = NoFailure
    /\ returned = <<>>
    /\ defined = {}
    /\ GraphIdle
    /\ RunnerIdle

\* One turn of the loop of Lexer::tokenize, or its exit.
Tokenize ==
    /\ pipeline = "source"
    /\ IF m_pos > Len(m_source)
       THEN /\ pipeline' = "lexed"
            /\ UNCHANGED <<m_pos, m_tokens>>
       ELSE LET next == next_token(m_source, m_pos)
            IN /\ m_tokens' = IF next.token.type # "ERROR"
                              THEN Append(m_tokens, next.token) ELSE m_tokens
               /\ m_pos' = next.pos
               /\ pipeline' = IF next.token.type = "END_OF_FILE"
                               THEN "lexed" ELSE "source"
    /\ UNCHANGED <<m_source, parsed, graphVars, runnerVars, interpVars, callVars>>

\* The statement loop of Parser::parse on the tokens.
Parse ==
    /\ pipeline = "lexed"
    /\ LET ast == parse(m_tokens)
       IN IF ast.ok
          THEN /\ parsed' = ast.node
               /\ pipeline' = "parsed"
               /\ UNCHANGED failure
          ELSE /\ failure' = [kind |-> "parse_error", what |-> ast.err]
               /\ pipeline' = "failed"
               /\ UNCHANGED parsed
    /\ UNCHANGED <<m_source, m_pos, m_tokens, graphVars, runnerVars, interpVars,
                   m_native_functions, returned, defined>>

Execute ==
    /\ pipeline = "parsed"
    /\ LET run == eval_block(frames, parsed)
       IN IF run.ok
          THEN /\ frames' = run.frames
               /\ returned' = <<m_config>>
               /\ pipeline' = "executed"
               /\ UNCHANGED failure
          ELSE /\ failure' = ThrownValue
               /\ pipeline' = "failed"
               /\ UNCHANGED <<frames, returned>>
    /\ UNCHANGED <<m_source, m_pos, m_tokens, parsed, graphVars, runnerVars, m_current_env,
                   m_config, stack, stmt, value, branch, steps, trace,
                   m_native_functions, defined>>

ParseNext == Tokenize \/ Parse \/ Execute

SpecParse == ParseInit /\ [][ParseNext]_vars

(***************************************************************************)
(* Reference notions for the claims about the front end.                   *)
(***************************************************************************)
\* The number of quote characters before position i.
QuotesBefore(src, i) == Cardinality({j \in 1..(i - 1) : src[j] = Quote})

\* A character that starts no token stands outside every string literal.
BadCharacter(src) ==
    \E i \in DOMAIN src : src[i] = "@" /\ QuotesBefore(src, i) % 2 = 0

\* The last string literal is not closed.
UnterminatedString(src) == QuotesBefore(src, Len(src) + 1) % 2 = 1

(***************************************************************************)
(* C13: a source with an unterminated string literal, or with a character  *)
(* that starts no token, makes the pipeline fail with a lexer error and    *)
(* produces no AST and no BuildConfig; the bad input is never dropped so   *)
(* that parsing continues on the remaining tokens.                         *)
(***************************************************************************)
C13_BadInputIsLexerError ==
    (BadCharacter(m_source) \/ UnterminatedString(m_source))
       => /\ pipeline \notin {"parsed", "executed"}
          /\ parsed = <<>>
          /\ returned = <<>>
          /\ pipeline = "failed" => failure.kind = "lexer_error"

(***************************************************************************)
(* C16: the keyword nil is accepted wherever a primary expression is       *)
(* allowed, as in x = nil and return nil, and evaluates to the nil value;  *)
(* it never causes a parse error.                                          *)
(***************************************************************************)
C16_NilIsPrimary ==
    m_source \in NilPrograms
       => /\ ~(pipeline = "failed" /\ failure.kind = "parse_error")
          /\ (pipeline = "executed" /\ m_source = Spaced(<<"x", "=", "nil">>))
                => SameValue(EnvGet(frames, m_global_env, "x"), NilValue)

(***************************************************************************)
(* C17: if A do S1 else if B do S2 else S3 end parses, consuming a single  *)
(* closing end, into If(A, S1, else = Block([If(B, S2, else = S3)]));      *)
(* longer chains nest the same way, and evaluation executes exactly the    *)
(* body of the first truthy condition, or the final else body when none    *)
(* is.                                                                     *)
(***************************************************************************)
AssignNode(name, n) ==
    [node |-> "Assignment", name |-> name,
     value |-> [node |-> "NumberLiteral", value |-> n]]

NestedIfNode(name) ==
    IfStatement([node |-> "BoolLiteral", value |-> TRUE],
                Block(<<AssignNode(name, 2)>>), NullNode)

ThenNodes(variant, name) ==
    IF variant = "plain" THEN <<AssignNode(name, 1)>>
    ELSE <<NestedIfNode(name), AssignNode(name, 1)>>

ElseNodes(variant, name) ==
    IF variant = "plain" THEN <<AssignNode(name, 1)>>
    ELSE IF variant = "nested" THEN <<AssignNode(name, 1), NestedIfNode(name)>>
    ELSE <<NestedIfNode(name), AssignNode(name, 1)>>

\* The tree the claim gives for the chain from its i-th condition on.
RECURSIVE ExpectedIf(_, _)
ExpectedIf(c, i) ==
    IfStatement([node |-> "BoolLiteral", value |-> c.conds[i] = "true"],
                Block(ThenNodes(c.thens[i], BodyNames[i])),
                IF i < Len(c.conds) THEN Block(<<ExpectedIf(c, i + 1)>>)
                ELSE IF c.final # "none"
                THEN Block(ElseNodes(c.final, ElseName))
                ELSE NullNode)

\* The variable of the body the claim says is executed.
ChosenNames(c) ==
    LET truthy == {i \in DOMAIN c.conds : c.conds[i] = "true"}
    IN IF truthy # {} THEN {BodyNames[SetMin(truthy)]}
       ELSE IF c.final # "none" THEN {ElseName}
       ELSE {}

SeededNames == {"buildtype", "platform", "arch"}

ChainSources == {ChainSource[c] : c \in Chains}

\* The chain a source text was rendered from.
ChainOf(src) == CHOOSE c \in Chains : ChainSource[c] = src

\* What the claim says of the chain c once the pipeline has ended.
ChainAsClaimed(c) ==
    /\ pipeline # "failed"
    /\ parsed = <<ExpectedIf(c, 1)>>
    /\ pipeline = "executed"
          => DOMAIN frames[m_global_env].m_values
                = SeededNames \cup ChosenNames(c)

ChainEnded ==
    pipeline \in {"parsed", "executed", "failed"} /\ m_source \in ChainSources

NodeEntries(nodes) ==
    LET keys == SortedSeq(DOMAIN nodes)
    IN [i \in DOMAIN keys |-> [kind |-> "node", name |-> keys[i]]]

\* for (const auto& to : tos): one entry per element of the set.
EdgesFrom(from, tos) ==
    LET sorted == SortedSeq(tos)
    IN [i \in DOMAIN sorted |-> [kind |-> "edge", from |-> from, to |-> sorted[i]]]

RECURSIVE EdgeLoop(_, _)
EdgeLoop(edges, froms) ==
    IF froms = <<>> THEN <<>>
    ELSE EdgesFrom(Head(froms), edges[Head(froms)]) \o EdgeLoop(edges, Tail(froms))

\* A variant that writes one edge per element of each node's dependencies.
RECURSIVE DependencyLoop(_, _)
DependencyLoop(nodes, keys) ==
    IF keys = <<>> THEN <<>>
    ELSE LET deps == nodes[Head(keys)].dependencies
         IN [i \in DOMAIN deps |->
                [kind |-> "edge", from |-> Head(keys), to |-> deps[i]]]
            \o DependencyLoop(nodes, Tail(keys))

EdgesFromDependencies(nodes, edges) == DependencyLoop(nodes, SortedSeq(DOMAIN nodes))

\* for (const auto& [from, tos] : m_edges) for (const auto& to : tos).
EdgeEntries(nodes, edges) == EdgeLoop(edges, SortedSeq(DOMAIN edges))

\* The statements of the digraph: the node statements, then the edges.
to_dot(nodes, edges) == NodeEntries(nodes) \o EdgeEntries(nodes, edges)

\* The two arrays of the JSON object.
to_json(nodes, edges) ==
    [nodes |-> NodeEntries(nodes), edges |-> EdgeEntries(nodes, edges)]

ToDot ==
    /\ last' = [op |-> "to_dot", value |-> to_dot(m_nodes, m_edges)]
    /\ UNCHANGED <<config, m_nodes, m_edges, interpVars, callVars, parseVars,
                   runnerVars>>

ToJson ==
    /\ last' = [op |-> "to_json", value |-> to_json(m_nodes, m_edges)]
    /\ UNCHANGED <<config, m_nodes, m_edges, interpVars, callVars, parseVars,
                   runnerVars>>

OutputNext == AddTarget \/ ToDot \/ ToJson

SpecOutput == GraphInit /\ [][OutputNext]_vars

\* How many entries of a sequence equal e.
Occurrences(entries, e) == Cardinality({i \in DOMAIN entries : entries[i] = e})

\* Each declared target has one node entry, each dependency edge of the
\* configuration one edge entry, and there is no other entry.
ListedOnce(nodeEntries, edgeEntries) ==
    /\ \A n \in DeclaredNames :
          Occurrences(nodeEntries, [kind |-> "node", name |-> n]) = 1
    /\ \A e \in ConfigEdges :
          Occurrences(edgeEntries, [kind |-> "edge", from |-> e[1], to |-> e[2]]) = 1
    /\ Len(nodeEntries) = Cardinality(DeclaredNames)
    /\ Len(edgeEntries) = Cardinality(ConfigEdges)

(***************************************************************************)
(* C21: to_dot and to_json each list every graph node exactly once and     *)
(* every dependency edge exactly once, also when a target lists the same   *)
(* dependency twice and when a dependency is not a declared target.        *)
(***************************************************************************)
C21_ListedExactlyOnce ==
    /\ last.op = "to_dot"
          => ListedOnce(SelectSeq(last.value, LAMBDA l : l.kind = "node"),
                        SelectSeq(last.value, LAMBDA l : l.kind = "edge"))
    /\ last.op = "to_json" => ListedOnce(last.value.nodes, last.value.edges)

\* to_json has answered for a target that lists one dependency twice, and
\* that dependency is not a declared target.
C21_Witness ==
    /\ last.op = "to_json"
    /\ \E i \in DOMAIN config :
          /\ Len(config[i].dependencies) = 2
          /\ config[i].dependencies[1] = config[i].dependencies[2]
          /\ config[i].dependencies[1] \notin DeclaredNames

(***************************************************************************)
(* C27: for an acyclic graph, topological_sort returns each declared       *)
(* target name exactly once and no name that is not a declared target: a   *)
(* dependency naming an external library is not in the returned order.     *)
(***************************************************************************)
C27_OnlyDeclaredTargets ==
    (last.op = "topological_sort" /\ ~HasDirectedCycle)
       => /\ \A n \in DeclaredNames : Occurrences(last.value, n) = 1
          /\ Range(last.value) \subseteq DeclaredNames

(***************************************************************************)
(* Scope of the body of if and unless.                                     *)
(***************************************************************************)
\* C22: the body of an if or unless statement runs in a child frame: a name
\* that was unbound before the statement and is first assigned inside the
\* body is not bound in the enclosing frame once the statement has ended.
C22_BodyBindingDropped ==
    trace.lines \in {FirstBindInIf, FirstBindInUnless}
        => ~EnvExists(frames, m_current_env, "a")

(***************************************************************************)
(* C24: a return statement, with or without a value, that executes outside *)
(* any function body aborts interpretation with a runtime error, and       *)
(* execute returns no BuildConfig.                                         *)
(***************************************************************************)
C24_TopLevelReturnAborts ==
    /\ [][(ReturnStep /\ InnermostFn = 0)
          => failure'.kind = "runtime_error"]_vars
    /\ [][(stmt.kind = "return" /\ stack = <<>>) => returned' = <<>>]_vars

(***************************************************************************)
(* Functions with parameters, called with fewer, as many and more          *)
(* arguments, at the top level and inside a target block.                  *)
(***************************************************************************)
ParameterLists == {<<>>, <<"p">>, <<"p", "q">>}

FnAssignPool == {<<"a", SrcNum(1)>>, <<"p", SrcNum(2)>>}

FnCallPool ==
    {SrcCall("f", args) :
        args \in {<<>>, <<SrcId("a")>>, <<SrcNum(1), SrcNum(2)>>,
                  <<SrcNum(1), SrcId("a"), SrcNum(2)>>}}

FnAssignment == EvalAssignmentOf(FnAssignPool, {"="}, MaxCallSteps)

FnDef == EvalFunctionDefOf({"f"}, ParameterLists)

FnCall == EvalCallOf(FnCallPool)

FnNext ==
    \/ FnAssignment
    \/ CallTargetBegin
    \/ EvalTargetEnd
    \/ FnDef
    \/ FnCall
    \/ EvalReturn
    \/ EvalCallEnd
    \/ ExecuteReturn

SpecFn == InterpInit /\ [][FnNext]_vars

\* The step calls a user function.
FnCallStep ==
    /\ CallStep
    /\ stmt'.name \in DOMAIN m_native_functions
    /\ m_native_functions[stmt'.name].kind = "fn"

\* The names a function body may look up.
BodyLookups == {"a", "p", "q", "buildtype", "platform"}

\* Looking name up from frame e of fr finds what looking it up from frame g
\* of gr finds.
SameLookup(fr, e, gr, g, name) ==
    /\ EnvExists(fr, e, name) = EnvExists(gr, g, name)
    /\ EnvExists(fr, e, name)
          => SameValue(EnvGet(fr, e, name), EnvGet(gr, g, name))

(***************************************************************************)
(* C23: the body of a user function runs in a fresh child of the global    *)
(* frame: its parameters are bound positionally to the arguments, a        *)
(* parameter without an argument is unbound and extra arguments are        *)
(* ignored; every other name is looked up in the global frame, so no       *)
(* binding of the caller's local frames is seen; and when the call is      *)
(* over the caller's frame is the current frame again.                     *)
(***************************************************************************)
C23_FunctionFrame ==
    /\ [][FnCallStep
          => LET parameters == m_native_functions[stmt'.name].parameters
                 args == [i \in DOMAIN stmt'.args |-> Val(stmt'.args[i])]
                 bound == {i \in DOMAIN parameters : i <= Len(args)}
                 callee == m_current_env'
             IN /\ callee \notin DOMAIN frames
                /\ frames'[callee].m_parent = m_global_env
                /\ DOMAIN frames'[callee].m_values =
                      {parameters[i] : i \in bound}
                /\ \A i \in bound :
                      SameValue(EnvGet(frames', callee, parameters[i]), args[i])
                /\ \A n \in BodyLookups \ {parameters[i] : i \in bound} :
                      SameLookup(frames', callee, frames, m_global_env, n)
                /\ stack'[Len(stack')].prev_env = m_current_env]_vars
    /\ [][(InnermostFn # 0 /\ Len(stack') < InnermostFn)
          => /\ m_current_env' = stack[InnermostFn].prev_env
             /\ frames' = SubSeq(frames, 1, m_current_env')]_vars

\* f(p, q) was called with the one argument a from inside a target block
\* whose frame binds a, and the body of f is being evaluated.
C23_Witness ==
    /\ stack # <<>>
    /\ Top.kind = "fn"
    /\ stmt.kind = "call"
    /\ Len(stmt.args) = 1
    /\ Len(m_native_functions["f"].parameters) = 2
    /\ Top.prev_env # m_global_env
    /\ "a" \in DOMAIN frames[Top.prev_env].m_values
    /\ "a" \notin DOMAIN frames[m_global_env].m_values
    /\ "p" \in DOMAIN frames[m_current_env].m_values
    /\ "q" \notin DOMAIN frames[m_current_env].m_values

(***************************************************************************)
(* C25: for every source string, the empty string and the sources whose    *)
(* last character ends a token included, the sequence Lexer::tokenize      *)
(* returns contains exactly one end-of-file token, and that token is its   *)
(* last element.                                                           *)
(***************************************************************************)
C25_OneEndOfFileLast ==
    pipeline # "source"
       => /\ Cardinality({i \in DOMAIN m_tokens :
                            m_tokens[i].type = "END_OF_FILE"}) = 1
          /\ m_tokens[Len(m_tokens)].type = "END_OF_FILE"

(***************************************************************************)
(* C28: for an if statement whose else body starts on a new line with an   *)
(* ordinary nested if ... do ... end, the parser consumes the outer        *)
(* statement's own closing end: when parse_if_statement returns, no end    *)
(* belonging to the statement is left in the token stream.                 *)
(***************************************************************************)
C28_ClosingEndConsumed ==
    (pipeline = "lexed" /\ m_source \in ChainSources
        /\ ChainOf(m_source).final = "iffirst")
       => LET outer == parse_if_statement(m_tokens, 2)
          IN /\ outer.ok
             /\ \A i \in DOMAIN m_tokens :
                   i >= outer.pos => m_tokens[i].type # "END"

(***************************************************************************)
(* Interpreter: the operands of a binary operator.  An operand that is a   *)
(* call runs the callable while the expression is evaluated; the result of *)
(* an evaluation is [ok, frames, value, exc], ok being FALSE when it threw.*)
(* The program under study defines                                         *)
(*     fn yes() do last = "yes"  return true end                           *)
(*     fn no() do last = "no"  return false end                            *)
(* and evaluates r = L and R and r = L or R at the top level.              *)
(***************************************************************************)
OperandFns == {"yes", "no"}

\* The body each of the two definitions captures.
OperandFnBody ==
    [n \in OperandFns |->
        [name |-> "last", rhs |-> SrcStr(n),
         result |-> IF n = "yes" THEN SrcTrue ELSE SrcFalse]]

OperandPool ==
    {SrcTrue, SrcFalse, SrcCall("yes", <<>>), SrcCall("no", <<>>),
     SrcCall("error", <<SrcStr("boom")>>), SrcCall("error", <<SrcStr("bang")>>)}

LogicalOps == {"and", "or"}

Evaluated(fr, val) ==
    [ok |-> TRUE, frames |-> fr, value |-> val, exc |-> NoFailure]

Raised(fr, exc) ==
    [ok |-> FALSE, frames |-> fr, value |-> NilValue, exc |-> exc]

\* The callable of a user function: the assignment of its body runs in a
\* fresh child of the global frame, and the returned value is caught.
call_function(fr, name) ==
    LET body == OperandFnBody[name]
        inner == Append(fr, NewEnvironment(m_global_env))
        after == EnvSet(inner, Len(inner), body.name,
                        eval_expression(inner, Len(inner),
                                        parse_expression(body.rhs)))
    IN Evaluated(Pop(after),
                 eval_expression(after, Len(after), parse_expression(body.result)))

\* eval_expression on an operand; a FunctionCall goes through eval_call.
eval_operand(fr, src) ==
    IF src.k # "call"
    THEN Evaluated(fr, eval_expression(fr, m_current_env, parse_expression(src)))
    ELSE IF src.name \notin DOMAIN m_native_functions
    THEN Raised(fr, RuntimeError("Unknown function: " \o src.name))
    ELSE IF m_native_functions[src.name].kind # "native"
    THEN call_function(fr, src.name)
    ELSE LET args == [i \in DOMAIN src.args |->
                         eval_expression(fr, m_current_env,
                                         parse_expression(src.args[i]))]
         IN IF src.name = "error"
            THEN Raised(fr, RuntimeError(ErrorMessage(args)))
            ELSE Evaluated(fr, NativeResult(src.name, args))

\* eval_binary once both operands are evaluated.
BinaryTail(op, left, right) ==
    IF ~right.ok THEN right
    ELSE Evaluated(right.frames, eval_binary(op, left.value, right.value))

\* A variant that leaves the right operand alone when the left one decides.
ShortCircuit(op, left, rsrc) ==
    IF ~left.ok THEN left
    ELSE IF is_truthy(left.value) = (op = "or")
    THEN Evaluated(left.frames, BoolValue(op = "or"))
    ELSE BinaryTail(op, left, eval_operand(left.frames, rsrc))

\* auto right = eval_expression(expr->right), after the left operand.
BinaryRight(op, left, rsrc) ==
    IF ~left.ok THEN left
    ELSE BinaryTail(op, left, eval_operand(left.frames, rsrc))

\* eval_binary on the BinaryOp node, operands included.
eval_binary_node(fr, op, lsrc, rsrc) ==
    BinaryRight(op, eval_operand(fr, lsrc), rsrc)

\* eval_assignment of r = L op R.
EvalLogicalAssignment ==
    /\ Running
    /\ steps < MaxCallSteps
    /\ \E op \in LogicalOps, lsrc \in OperandPool, rsrc \in OperandPool :
          LET res == eval_binary_node(frames, op, lsrc, rsrc)
          IN /\ stmt' = AssignLine("r", "=", SrcBinary(op, lsrc, rsrc))
             /\ IF res.ok
                THEN /\ frames' = EnvSet(res.frames, m_current_env, "r", res.value)
                     /\ value' = res.value
                     /\ failure' = failure
                ELSE /\ frames' = res.frames
                     /\ value' = value
                     /\ failure' = res.exc
    /\ steps' = steps + 1
    /\ branch' = ""
    /\ trace' = TraceOff
    /\ UNCHANGED <<m_current_env, m_config, stack, m_native_functions, returned,
                   defined, graphVars, runnerVars, parseVars>>

LastAssignment == EvalAssignmentOf({<<"last", SrcStr("none")>>}, {"="}, MaxCallSteps)

OperandFnDef == EvalFunctionDefOf(OperandFns, {<<>>})

LogicalNext ==
    \/ LastAssignment
    \/ OperandFnDef
    \/ EvalLogicalAssignment
    \/ ExecuteReturn

SpecLogical == InterpInit /\ [][LogicalNext]_vars

\* The step evaluates r = L and R or r = L or R.
LogicalStep ==
    steps' = steps + 1 /\ stmt'.kind = "assign" /\ stmt'.rhs.k = "binary"

\* The operand is a call that raises: error(msg), or a function that is not
\* defined yet.
Throws(src) ==
    /\ src.k = "call"
    /\ src.name = "error" \/ src.name \notin DOMAIN m_native_functions

ThrownBy(src) ==
    IF src.name = "error" THEN RuntimeError(src.args[1].s)
    ELSE RuntimeError("Unknown function: " \o src.name)

\* The truth value of an operand that does not raise.
Truth(src) == src = SrcTrue \/ (src.k = "call" /\ src.name = "yes")

\* The global binding of last, once it exists, names the function that ran
\* most recently.
LastIs(fr, name) ==
    "last" \in DOMAIN frames[m_global_env].m_values
       => SameValue(fr[m_global_env].m_values["last"], StringValue(name))

(***************************************************************************)
(* C29: a and b and a or b evaluate both operands, the left one and then   *)
(* the right one, before the Bool result is computed: there is no          *)
(* short-circuit, so a side effect or an error() call in b happens also    *)
(* when a alone determines the result.                                     *)
(***************************************************************************)
C29_BothOperandsEvaluated ==
    [][LogicalStep
       => LET op == stmt'.rhs.op
              lsrc == stmt'.rhs.l
              rsrc == stmt'.rhs.r
          IN /\ Throws(lsrc) => failure' = ThrownBy(lsrc)
             /\ (~Throws(lsrc) /\ Throws(rsrc)) => failure' = ThrownBy(rsrc)
             /\ (~Throws(lsrc) /\ ~Throws(rsrc))
                   => /\ failure' = failure
                      /\ SameValue(value',
                            BoolValue(IF op = "and"
                                      THEN Truth(lsrc) /\ Truth(rsrc)
                                      ELSE Truth(lsrc) \/ Truth(rsrc)))
                      /\ rsrc.k = "call" => LastIs(frames', rsrc.name)
                      /\ (lsrc.k = "call" /\ rsrc.k # "call")
                            => LastIs(frames', lsrc.name)]_vars

\* r = false and yes() was evaluated as the third statement, after last was
\* bound globally and yes defined: r is false and yes has run.
C29_Witness ==
    /\ steps = 3
    /\ stmt = AssignLine("r", "=",
                         SrcBinary("and", SrcFalse, SrcCall("yes", <<>>)))
    /\ failure = NoFailure
    /\ SameValue(frames[m_global_env].m_values["r"], BoolValue(FALSE))
    /\ SameValue(frames[m_global_env].m_values["last"], StringValue("yes"))

(***************************************************************************)
(* Interpreter: the for loop.  The body of the loops under study is a      *)
(* block of assignments, out = out + x with or without x = "z" before it.  *)
(***************************************************************************)
MaxElems == 2

ForLine(variable, iterable, body) ==
    [kind |-> "for", variable |-> variable, iterable |-> iterable, body |-> body]

\* Array literals of up to MaxElems strings, and three values that are not
\* arrays: a number, a string and an unbound name.
IterablePool ==
    {SrcArray(elems) : elems \in SeqsUpTo({SrcStr("a"), SrcStr("b")}, MaxElems)}
       \cup {SrcNum(1), SrcStr("ab"), SrcId("nothing")}

AppendToOut == <<"out", SrcBinary("+", SrcId("out"), SrcId("x"))>>

ForBodies == {<<AppendToOut>>, <<<<"x", SrcStr("z")>>, AppendToOut>>}

ForAssignPool == {<<"out", SrcStr("")>>, <<"x", SrcStr("k")>>}

\* eval_block on a block of assignments, in frame e.
RECURSIVE eval_assignments(_, _, _, _)
eval_assignments(fr, e, body, i) ==
    IF i > Len(body) THEN fr
    ELSE eval_assignments(
            EnvSet(fr, e, body[i][1],
                   eval_expression(fr, e, parse_expression(body[i][2]))),
            e, body, i + 1)

\* A variant of one turn that rebinds the loop variable with set.
for_turn_set(fr, e, variable, elem, body) ==
    eval_assignments(EnvSet(fr, e, variable, elem), e, body, 1)

\* One turn of the loop: define(stmt->variable, elem), eval_block(body).
for_turn(fr, e, variable, elem, body) ==
    eval_assignments(EnvDefine(fr, e, variable, elem), e, body, 1)

\* for (const auto& elem : arr) from element i on.
RECURSIVE for_loop(_, _, _, _, _, _)
for_loop(fr, e, variable, arr, body, i) ==
    IF i > Len(arr) THEN fr
    ELSE for_loop(for_turn(fr, e, variable, arr[i], body),
                  e, variable, arr, body, i + 1)

\* eval_for: the iterable, the check, the child frame, the loop, and the
\* caller's frame again.
EvalFor ==
    /\ Running
    /\ steps < MaxCallSteps
    /\ \E iter \in IterablePool, body \in ForBodies :
          LET iterable == eval_expression(frames, m_current_env,
                                          parse_expression(iter))
          IN /\ stmt' = ForLine("x", iter, body)
             /\ IF iterable.t # "arr"
                THEN Throw(RuntimeError("For loop requires an array"), NilValue)
                ELSE /\ frames' =
                          Pop(for_loop(Append(frames, NewEnvironment(m_current_env)),
                                       Len(frames) + 1, "x", iterable.v, body, 1))
                     /\ UNCHANGED <<m_current_env, stack, value, failure>>
    /\ steps' = steps + 1
    /\ branch' = ""
    /\ trace' = TraceOff
    /\ UNCHANGED <<m_config, m_native_functions, returned, defined, graphVars, runnerVars,
                   parseVars>>

ForAssignment == EvalAssignmentOf(ForAssignPool, {"="}, MaxCallSteps)

ForNext ==
    \/ ForAssignment
    \/ CallTargetBegin
    \/ EvalTargetEnd
    \/ EvalFor
    \/ ExecuteReturn

SpecFor == InterpInit /\ [][ForNext]_vars

\* The step evaluates a for statement.
ForStep == steps' = steps + 1 /\ stmt'.kind = "for"

\* What one turn of the body appends to out.
Contribution(body, elem) == IF Len(body) = 2 THEN "z" ELSE elem.v

RECURSIVE Joined(_, _, _)
Joined(body, arr, i) ==
    IF i > Len(arr) THEN ""
    ELSE Contribution(body, arr[i]) \o Joined(body, arr, i + 1)

(***************************************************************************)
(* C26: a for statement over a value that is not an array raises a runtime *)
(* error and executes its body zero times; over an array the body is       *)
(* executed once per element, in order, with the loop variable bound to    *)
(* that element, and a variable of the same name bound in an enclosing     *)
(* frame has its previous value after the loop.                            *)
(***************************************************************************)
C26_ForLoop ==
    [][ForStep
       => LET iterable == Val(stmt'.iterable)
          IN IF iterable.t # "arr"
             THEN /\ failure' = RuntimeError("For loop requires an array")
                  /\ frames' = frames
             ELSE /\ failure' = failure
                  /\ m_current_env' = m_current_env
                  /\ Len(frames') = Len(frames)
                  /\ SameLookup(frames', m_current_env, frames, m_current_env, "x")
                  /\ EnvExists(frames, m_current_env, "out")
                        => SameValue(EnvGet(frames', m_current_env, "out"),
                              StringValue(EnvGet(frames, m_current_env, "out").v
                                 \o Joined(stmt'.body, iterable.v, 1)))]_vars

\* for x in ["a", "b"] do out = out + x end has run inside a target block
\* in which x was bound to "k" before: out is "ab" and x is "k" again.
C26_Witness ==
    /\ stmt.kind = "for"
    /\ stmt.iterable = SrcArray(<<SrcStr("a"), SrcStr("b")>>)
    /\ Len(stmt.body) = 1
    /\ failure = NoFailure
    /\ stack # <<>>
    /\ m_current_env # m_global_env
    /\ "x" \in DOMAIN frames[m_current_env].m_values
    /\ SameValue(frames[m_current_env].m_values["x"], StringValue("k"))
    /\ EnvExists(frames, m_current_env, "out")
    /\ SameValue(EnvGet(frames, m_current_env, "out"), StringValue("ab"))

(***************************************************************************)
(* Runner::run_parallel (core/runner.cpp).  The calling thread walks the   *)
(* commands; every future is a thread that runs Runner::execute on one     *)
(* command.  A future is "launched" until its thread enters execute,       *)
(* "reading" while the command runs and its output is read, "closing" in   *)
(* pclose, and "ready" when execute has returned.  The loop index i of     *)
(* run_parallel equals futures.size() at every test of the loop.           *)
(***************************************************************************)
MaxCommands == 3

MaxParallel == 2

CommandNames == {"cc", "ld"}

\* std::async(std::launch::async, ...) on a command.
Future(command) ==
    [command |-> command, state |-> "launched", valid |-> TRUE, complete |-> FALSE]

\* What f.get() hands over; complete is FALSE when the output was cut short.
RunResult(f) == [command |-> f.command, complete |-> f.complete]

\* The futures whose command has not finished.
Executing == {k \in DOMAIN futures : futures[k].state # "ready"}

\* A variant that launches every command at once.
NeverWaits(fs, n) == FALSE

\* futures.size() >= static_cast<size_t>(max_parallel)
MustWait(fs, n) == Len(fs) >= n

\* The first future with f.valid(), 0 when there is none.
FirstValid(fs) ==
    LET idx == {k \in DOMAIN fs : fs[k].valid}
    IN IF idx = {} THEN 0 ELSE CHOOSE k \in idx : \A j \in idx : k <= j

\* run_parallel(commands, n) has been called with n > 0.
RunnerInit ==
    /\ commands \in SeqsUpTo(CommandNames, MaxCommands)
    /\ max_parallel \in 1..MaxParallel
    /\ futures = <<>>
    /\ results = <<>>
    /\ pc = "loop"
    /\ m_running = FALSE
    /\ m_cancelled = FALSE
    /\ GraphIdle
    /\ InterpIdle
    /\ ParseIdle

\* i < commands.size(), and the test of futures.size().
LoopTest ==
    /\ pc = "loop"
    /\ pc' = IF Len(futures) >= Len(commands) THEN "collect"
             ELSE IF MustWait(futures, max_parallel) THEN "wait" ELSE "launch"
    /\ UNCHANGED <<commands, max_parallel, futures, results, m_running,
                   m_cancelled, graphVars, interpVars, callVars, parseVars>>

\* results.push_back(f.get()) on the first valid future: get blocks until
\* the future is ready and leaves it invalid.
GetFirstValid ==
    LET k == FirstValid(futures)
    IN /\ futures[k].state = "ready"
       /\ results' = Append(results, RunResult(futures[k]))
       /\ futures' = [futures EXCEPT ![k].valid = FALSE]

\* wait for one to complete, then go on to launch.
WaitForOne ==
    /\ pc = "wait"
    /\ IF FirstValid(futures) = 0
       THEN UNCHANGED <<futures, results>>
       ELSE GetFirstValid
    /\ pc' = "launch"
    /\ UNCHANGED <<commands, max_parallel, m_running, m_cancelled, graphVars,
                   interpVars, callVars, parseVars>>

\* futures.push_back(std::async(...)) for commands[i], and i++.
Launch ==
    /\ pc = "launch"
    /\ futures' = Append(futures, Future(commands[Len(futures) + 1]))
    /\ pc' = "loop"
    /\ UNCHANGED <<commands, max_parallel, results, m_running, m_cancelled,
                   graphVars, interpVars, callVars, parseVars>>

\* collect remaining results, and return results.
Collect ==
    /\ pc = "collect"
    /\ IF FirstValid(futures) = 0
       THEN /\ pc' = "returned"
            /\ UNCHANGED <<futures, results>>
       ELSE /\ GetFirstValid
            /\ pc' = pc
    /\ UNCHANGED <<commands, max_parallel, m_running, m_cancelled, graphVars,
                   interpVars, callVars, parseVars>>

\* execute up to popen: m_running = true.
ExecuteBegin(k) ==
    /\ futures[k].state = "launched"
    /\ futures' = [futures EXCEPT ![k].state = "reading"]
    /\ m_running' = TRUE
    /\ UNCHANGED <<commands, max_parallel, results, pc, m_cancelled, graphVars,
                   interpVars, callVars, parseVars>>

\* What the reads of m_cancelled in the fgets loop of future k may see.
\* m_cancelled is a plain bool: a read that another thread's execute or
\* cancel may write under is a data race and may see either value.  A
\* command that prints nothing is never asked.
SeenCancelled(k) ==
    {FALSE, m_cancelled} \cup (IF Executing \ {k} # {} THEN {TRUE} ELSE {})

\* The fgets loop: left at the end of the output, or by break.
ExecuteRead(k) ==
    /\ futures[k].state = "reading"
    /\ \E seen \in SeenCancelled(k) :
          futures' = [futures EXCEPT ![k].state = "closing",
                                     ![k].complete = ~seen]
    /\ UNCHANGED <<commands, max_parallel, results, pc, m_running, m_cancelled,
                   graphVars, interpVars, callVars, parseVars>>

\* pclose, m_running = false, m_cancelled = false, return result.
ExecuteEnd(k) ==
    /\ futures[k].state = "closing"
    /\ futures' = [futures EXCEPT ![k].state = "ready"]
    /\ m_running' = FALSE
    /\ m_cancelled' = FALSE
    /\ UNCHANGED <<commands, max_parallel, results, pc, graphVars, interpVars,
                   callVars, parseVars>>

\* Runner::cancel, called from another thread while run_parallel runs.
Cancel ==
    /\ pc \notin {"idle", "returned"}
    /\ ~m_cancelled
    /\ m_cancelled' = TRUE
    /\ UNCHANGED <<commands, max_parallel, futures, results, pc, m_running,
                   graphVars, interpVars, callVars, parseVars>>

\* A step of the thread that called run_parallel.
CallerStep == LoopTest \/ WaitForOne \/ Launch \/ Collect

\* A step of the thread of future k.
ExecuteStep(k) == ExecuteBegin(k) \/ ExecuteRead(k) \/ ExecuteEnd(k)

RunnerNext ==
    \/ LoopTest
    \/ WaitForOne
    \/ Launch
    \/ Collect
    \/ Cancel
    \/ \E k \in DOMAIN futures : ExecuteBegin(k)
    \/ \E k \in DOMAIN futures : ExecuteRead(k)
    \/ \E k \in DOMAIN futures : ExecuteEnd(k)

SpecRunner == RunnerInit /\ [][RunnerNext]_vars

\* Every thread that can take a step is scheduled in the end, and every
\* command finishes: pclose returns.
SpecRunnerFair ==
    /\ SpecRunner
    /\ WF_vars(CallerStep)
    /\ \A k \in 1..MaxCommands : WF_vars(k \in DOMAIN futures /\ ExecuteStep(k))

(***************************************************************************)
(* C30: run_parallel(commands, n) with n > 0 never has more than n         *)
(* commands executing at the same time, terminates once every command has  *)
(* finished, and returns exactly one RunResult per command, in the order   *)
(* of the commands.                                                        *)
(***************************************************************************)
C30_RunParallel ==
    /\ [](Cardinality(Executing) <= max_parallel)
    /\ [](pc = "returned"
            => /\ Executing = {}
               /\ Len(results) = Len(commands)
               /\ \A j \in DOMAIN commands : results[j].command = commands[j])
    /\ <>(pc = "returned")

\* Three commands, the first two different, were run two at a time and
\* run_parallel has returned; the output of one was cut short by cancel.
C30_Witness ==
    /\ pc = "returned"
    /\ Len(commands) = 3
    /\ max_parallel = 2
    /\ commands[1] # commands[2]
    /\ \E j \in DOMAIN results : ~results[j].complete

=============================================================================
